---- MODULE Spec2Model ----
(***************************************************************************)
(* The disc tables of Saiful-Arcade: PoolGame (src/unnamed/part_005) and   *)
(* CarromGame (src/components/CarromGame.tsx).                             *)
(*                                                                         *)
(* Numbers.  The source computes in IEEE doubles.  The model computes in   *)
(* fixed point: a length or a velocity is an integer count of 1/Scale px   *)
(* (px per tick), products and quotients are truncated toward zero, and a  *)
(* unit vector is an integer count of 1/Unit.  NaN is a value of its own:  *)
(* every arithmetic operator passes it on and every comparison with it is  *)
(* false, as in JavaScript.                                                *)
(*                                                                         *)
(* React.  A handler, the render its state updates cause and the effects   *)
(* of that render are one step: React runs the effects of a render before  *)
(* it handles the next discrete event.  The Loop effect of both components *)
(* calls render() -- and with it update() -- in its body, so a step that   *)
(* re-runs the Loop effect contains a tick.                                *)
(*                                                                         *)
(* Spec is the component from its mount on: ticks, pointer events, RESET.  *)
(* SpecTable is one session on a table placed in mid-game: ticks and       *)
(* pointer events.                                                         *)
(***************************************************************************)
EXTENDS Integers, Sequences, FiniteSets, TLC

\* ------------------------------------------------------------ numbers

Scale == 10 * 10
Unit == 10 * Scale
NaN == -(2^30)

Abs(a) == IF a < 0 THEN -a ELSE a
\* a / b for b > 0, truncated toward zero
Trunc(a, b) == IF a >= 0 THEN a \div b ELSE -((-a) \div b)

Add(a, b) == IF a = NaN \/ b = NaN THEN NaN ELSE a + b
Sub(a, b) == IF a = NaN \/ b = NaN THEN NaN ELSE a - b
\* a * (p / q), p and q plain integers, q > 0
Times(a, p, q) == IF a = NaN THEN NaN ELSE Trunc(a * p, q)
\* a * b where b counts 1/s
Mul(a, b, s) == IF a = NaN \/ b = NaN THEN NaN ELSE Trunc(a * b, s)
\* a / b as a count of 1/s; the source only divides by a distance, and
\* a zero distance makes the numerator zero too: 0 / 0 is NaN
Quot(a, b, s) ==
  IF a = NaN \/ b = NaN \/ b = 0 THEN NaN
  ELSE IF b > 0 THEN Trunc(a * s, b) ELSE Trunc(-(a * s), -b)
Lt(a, b) == a # NaN /\ b # NaN /\ a < b
Gt(a, b) == a # NaN /\ b # NaN /\ a > b
MathAbs(a) == IF a = NaN THEN NaN ELSE Abs(a)
MathMin(a, b) == IF a = NaN \/ b = NaN THEN NaN ELSE IF a < b THEN a ELSE b
MathMax(a, b) == IF a = NaN \/ b = NaN THEN NaN ELSE IF a > b THEN a ELSE b

\* F(x) with x computed once, as a statement sequence computes it
Let(x, F(_)) == CHOOSE out \in { F(v) : v \in {x} } : TRUE

\* floor of the square root of n, by Newton's iteration downward from an
\* x with x * x >= n
RECURSIVE SqrtFrom(_, _)
SqrtFrom(n, x) ==
  IF x = 0 THEN 0
  ELSE IF (x + n \div x) \div 2 >= x THEN x
  ELSE SqrtFrom(n, (x + n \div x) \div 2)

\* the length of (a, b), a and b >= 0: it is at most max + min / 2
Length(a, b) ==
  SqrtFrom(a * a + b * b, (IF a > b THEN a + b \div 2 ELSE b + a \div 2) + 1)

\* Math.hypot(dx, dy) and Math.sqrt(dx*dx + dy*dy); a long distance is
\* computed in tenths so that the squares stay in range
MathHypot(dx, dy) ==
  IF dx = NaN \/ dy = NaN THEN NaN
  ELSE IF Abs(dx) < 30000 /\ Abs(dy) < 30000
       THEN Length(Abs(dx), Abs(dy))
       ELSE 10 * Length(Abs(dx) \div 10, Abs(dy) \div 10)

\* ---------------------------------------------------------- constants

\* PoolGame
TABLE_WIDTH == 300
TABLE_HEIGHT == 600
BALL_RADIUS == 8
POOL_POCKET_RADIUS == 16
\* FRICTION = 0.985, in thousandths
POOL_FRICTION == 985
\* VELOCITY_THRESHOLD = 0.05 (Carrom writes the literal 0.05)
VELOCITY_THRESHOLD == Scale \div 20

\* CarromGame
BOARD_SIZE == 600
CARROM_POCKET_RADIUS == 25
COIN_RADIUS == 12
STRIKER_RADIUS == 18
BASELINE_Y == 500
\* FRICTION = 0.98, in thousandths
CARROM_FRICTION == 980

Games == {"pool", "carrom"}

Width(g) == (IF g = "pool" THEN TABLE_WIDTH ELSE BOARD_SIZE) * Scale
Height(g) == (IF g = "pool" THEN TABLE_HEIGHT ELSE BOARD_SIZE) * Scale
\* a friction factor above 1
FrictionGain(g) == 1010
Friction(g) == IF g = "pool" THEN POOL_FRICTION ELSE CARROM_FRICTION
\* b.vx *= -0.8 (Pool), d.vx *= -0.7 (Carrom), in tenths
WallBounce(g) == IF g = "pool" THEN -8 ELSE -7
\* a capture radius of 10 px in both games
PocketRadiusSmall(g) == 10 * Scale

PocketRadius(g) ==
  (IF g = "pool" THEN POOL_POCKET_RADIUS ELSE CARROM_POCKET_RADIUS) * Scale

Pt(px, py) == [x |-> px, y |-> py]

\* the pockets arrays of update
Pockets(g) ==
  IF g = "pool"
  THEN << Pt(0, 0), Pt(Width(g), 0),
          Pt(0, Height(g) \div 2), Pt(Width(g), Height(g) \div 2),
          Pt(0, Height(g)), Pt(Width(g), Height(g)) >>
  ELSE << Pt(0, 0), Pt(Width(g), 0),
          Pt(0, Height(g)), Pt(Width(g), Height(g)) >>

\* where a pocketed cue ball / striker is put back
LaunchPoint(g) ==
  IF g = "pool" THEN Pt(Width(g) \div 2, (Height(g) * 3) \div 4)
  ELSE Pt(Width(g) \div 2, BASELINE_Y * Scale)

\* ------------------------------------------------------------- discs

\* A disc is [x, y, vx, vy, radius, type, active].  Pool's Ball has isCue
\* instead of type and BALL_RADIUS instead of radius: type is "cue" or
\* "ball" there.
IsCue(d) == d.type \in {"cue", "striker"}

Disc(px, py, pvx, pvy, r, t) ==
  [x |-> px, y |-> py, vx |-> pvx, vy |-> pvy,
   radius |-> r, type |-> t, active |-> TRUE]

\* Move and Friction of update, for one disc
Integrate(g, d) ==
  LET fx == Times(d.vx, Friction(g), 1000)
      fy == Times(d.vy, Friction(g), 1000)
  IN [d EXCEPT !.x = Add(d.x, d.vx),
               !.y = Add(d.y, d.vy),
               !.vx = IF Lt(MathAbs(fx), VELOCITY_THRESHOLD) THEN 0 ELSE fx,
               !.vy = IF Lt(MathAbs(fy), VELOCITY_THRESHOLD) THEN 0 ELSE fy]

\* vx !== 0 || vy !== 0
IsMoving(d) == d.vx # 0 \/ d.vy # 0

\* the left wall without the clamp: the disc is turned round where it is
WallLeftReflectOnly(g, d) ==
  IF Lt(Sub(d.x, d.radius), 0)
  THEN [d EXCEPT !.vx = Times(d.vx, WallBounce(g), 10)]
  ELSE d

\* Walls of update: four ifs, one after the other
WallLeft(g, d) ==
  IF Lt(Sub(d.x, d.radius), 0)
  THEN [d EXCEPT !.x = d.radius, !.vx = Times(d.vx, WallBounce(g), 10)]
  ELSE d

WallRight(g, d) ==
  IF Gt(Add(d.x, d.radius), Width(g))
  THEN [d EXCEPT !.x = Width(g) - d.radius, !.vx = Times(d.vx, WallBounce(g), 10)]
  ELSE d

WallTop(g, d) ==
  IF Lt(Sub(d.y, d.radius), 0)
  THEN [d EXCEPT !.y = d.radius, !.vy = Times(d.vy, WallBounce(g), 10)]
  ELSE d

WallBottom(g, d) ==
  IF Gt(Add(d.y, d.radius), Height(g))
  THEN [d EXCEPT !.y = Height(g) - d.radius, !.vy = Times(d.vy, WallBounce(g), 10)]
  ELSE d

Walls(g, d) ==
  Let(WallLeft(g, d), LAMBDA a :
  Let(WallRight(g, a), LAMBDA b :
  Let(WallTop(g, b), LAMBDA c : WallBottom(g, c))))

\* every pocketed disc is worth the same
PointsFlat(g, d) == 100

\* the points setScore adds for a pocketed disc
Points(g, d) == IF g = "pool" THEN 100 ELSE IF d.type = "queen" THEN 50 ELSE 10

\* the pocket test without the branch for the cue ball / striker
PocketTestAnyDisc(g, r, p) ==
  IF ~Lt(MathHypot(Sub(r.d.x, p.x), Sub(r.d.y, p.y)), PocketRadius(g)) THEN r
  ELSE [r EXCEPT !.d = [r.d EXCEPT !.active = FALSE],
                 !.points = r.points + Points(g, r.d)]

\* one pocket p of the Pockets loop of update; r is [d, points, foul]
PocketTest(g, r, p) ==
  IF ~Lt(MathHypot(Sub(r.d.x, p.x), Sub(r.d.y, p.y)), PocketRadius(g)) THEN r
  ELSE IF IsCue(r.d)
  THEN [r EXCEPT !.d = [r.d EXCEPT !.x = LaunchPoint(g).x,
                                   !.y = LaunchPoint(g).y,
                                   !.vx = 0, !.vy = 0],
                 !.foul = TRUE]
  ELSE [r EXCEPT !.d = [r.d EXCEPT !.active = FALSE],
                 !.points = r.points + Points(g, r.d)]

\* Pockets of update: every pocket is tested in turn against the disc as
\* the pockets before it left it
RECURSIVE PocketLoop(_, _, _)
PocketLoop(g, r, k) ==
  IF k > Len(Pockets(g)) THEN r
  ELSE Let(PocketTest(g, r, Pockets(g)[k]), LAMBDA t : PocketLoop(g, t, k + 1))

\* the first loop of update for one disc: [d, moving, points, foul]
PhysicsDisc(g, d) ==
  IF ~d.active THEN [d |-> d, moving |-> FALSE, points |-> 0, foul |-> FALSE]
  ELSE Let(Integrate(g, d), LAMBDA m :
       Let(Walls(g, m), LAMBDA w :
       Let(PocketLoop(g, [d |-> w, points |-> 0, foul |-> FALSE], 1), LAMBDA p :
         [d |-> p.d, moving |-> IsMoving(m), points |-> p.points, foul |-> p.foul])))

\* masses of resolveCollision: Pool's balls are of equal mass (j / 2),
\* Carrom's striker weighs 2 and a coin 1
Mass(g, d) == IF g = "carrom" /\ d.type = "striker" THEN 2 ELSE 1

\* impulse of resolveCollision for normal velocity vn.  Pool:
\* j = -(1 + 0.9) * vn, impulse = j / 2.  Carrom:
\* impulse = (-(1 + 0.8) * vn) / (1/m1 + 1/m2)
Impulse(g, vn, m1, m2) ==
  IF g = "pool" THEN Times(Times(vn, -19, 10), 1, 2)
  ELSE Times(vn, -18 * m1 * m2, 10 * (m1 + m2))

\* every disc takes the whole impulse, whatever its mass
ImpulseOnAnyMass(g, impulse, m) == impulse

\* the share of the impulse a disc of mass m takes: impulse (Pool),
\* impulse / m (Carrom)
ImpulseOn(g, impulse, m) ==
  IF g = "pool" THEN impulse ELSE Times(impulse, 1, m)

\* velAlongNormal / vn of resolveCollision: (v2 - v1) . n
NormalVelocity(d1, d2, nx, ny) ==
  LET dvx == Sub(d2.vx, d1.vx)
      dvy == Sub(d2.vy, d1.vy)
  IN IF nx = NaN \/ ny = NaN \/ dvx = NaN \/ dvy = NaN THEN NaN
     ELSE Trunc(dvx * nx + dvy * ny, Unit)

\* the impulse k along n = (nx, ny), taken from d1 and given to d2
ApplyImpulse(d1, d2, k1, k2, nx, ny) ==
  [d1 |-> [d1 EXCEPT !.vx = Sub(d1.vx, Mul(k1, nx, Unit)),
                     !.vy = Sub(d1.vy, Mul(k1, ny, Unit))],
   d2 |-> [d2 EXCEPT !.vx = Add(d2.vx, Mul(k2, nx, Unit)),
                     !.vy = Add(d2.vy, Mul(k2, ny, Unit))]]

\* the overlap correction moving the second disc only
UnstickSecond(d1, d2, overlap, nx, ny) ==
  [d1 |-> d1,
   d2 |-> [d2 EXCEPT !.x = Add(d2.x, Mul(overlap, nx, Unit)),
                     !.y = Add(d2.y, Mul(overlap, ny, Unit))]]

\* the overlap correction moving each disc by the whole overlap
UnstickTwice(d1, d2, overlap, nx, ny) ==
  [d1 |-> [d1 EXCEPT !.x = Sub(d1.x, Mul(2 * overlap, nx, Unit)),
                     !.y = Sub(d1.y, Mul(2 * overlap, ny, Unit))],
   d2 |-> [d2 EXCEPT !.x = Add(d2.x, Mul(2 * overlap, nx, Unit)),
                     !.y = Add(d2.y, Mul(2 * overlap, ny, Unit))]]

\* Overlap correction / Unstuck: both discs move by overlap along n
Unstick(d1, d2, overlap, nx, ny) ==
  [d1 |-> [d1 EXCEPT !.x = Sub(d1.x, Mul(overlap, nx, Unit)),
                     !.y = Sub(d1.y, Mul(overlap, ny, Unit))],
   d2 |-> [d2 EXCEPT !.x = Add(d2.x, Mul(overlap, nx, Unit)),
                     !.y = Add(d2.y, Mul(overlap, ny, Unit))]]

\* the body of resolveCollision past the test vn > 0
Bounce(g, d1, d2, dist, nx, ny, vn) ==
  Let(Impulse(g, vn, Mass(g, d1), Mass(g, d2)), LAMBDA impulse :
  Let(ApplyImpulse(d1, d2, ImpulseOn(g, impulse, Mass(g, d1)),
                   ImpulseOn(g, impulse, Mass(g, d2)), nx, ny), LAMBDA v :
  Let(Unstick(v.d1, v.d2, Times(Sub(d1.radius + d2.radius, dist), 1, 2), nx, ny),
      LAMBDA u : [d1 |-> u.d1, d2 |-> u.d2, hit |-> TRUE])))

\* resolveCollision without the test vn > 0
OverlappingAlwaysBounce(g, d1, d2, dist) ==
  Let(Quot(Sub(d2.x, d1.x), dist, Unit), LAMBDA nx :
  Let(Quot(Sub(d2.y, d1.y), dist, Unit), LAMBDA ny :
  Let(NormalVelocity(d1, d2, nx, ny), LAMBDA vn :
    Bounce(g, d1, d2, dist, nx, ny, vn))))

\* the body of resolveCollision for an overlapping pair at distance dist
Overlapping(g, d1, d2, dist) ==
  Let(Quot(Sub(d2.x, d1.x), dist, Unit), LAMBDA nx :
  Let(Quot(Sub(d2.y, d1.y), dist, Unit), LAMBDA ny :
  Let(NormalVelocity(d1, d2, nx, ny), LAMBDA vn :
    IF Gt(vn, 0) THEN [d1 |-> d1, d2 |-> d2, hit |-> FALSE]
    ELSE Bounce(g, d1, d2, dist, nx, ny, vn))))

\* resolveCollision(d1, d2): [d1, d2, hit]; hit says that the pair was
\* resolved (impulse and overlap correction applied).  Pool compares the
\* distance with BALL_RADIUS * 2, the radius of every ball being BALL_RADIUS
ResolveCollision(g, d1, d2) ==
  Let(MathHypot(Sub(d2.x, d1.x), Sub(d2.y, d1.y)), LAMBDA dist :
    IF ~Lt(dist, d1.radius + d2.radius)
    THEN [d1 |-> d1, d2 |-> d2, hit |-> FALSE]
    ELSE Overlapping(g, d1, d2, dist))

\* the pair loop without the test that both discs are active
CollidePairAnyDisc(g, r, i, j) ==
  Let(ResolveCollision(g, r.discs[i], r.discs[j]), LAMBDA c :
    IF c.hit
    THEN [discs |-> [r.discs EXCEPT ![i] = c.d1, ![j] = c.d2],
          hits |-> Append(r.hits, <<i, j>>)]
    ELSE r)

\* one pair (i, j) of the pair loop of update; r is [discs, hits], hits
\* the pairs resolved so far, in order
CollidePair(g, r, i, j) ==
  IF r.discs[i].active /\ r.discs[j].active
  THEN Let(ResolveCollision(g, r.discs[i], r.discs[j]), LAMBDA c :
         IF c.hit
         THEN [discs |-> [r.discs EXCEPT ![i] = c.d1, ![j] = c.d2],
               hits |-> Append(r.hits, <<i, j>>)]
         ELSE r)
  ELSE r

\* the inner loop of the pair loop: disc i against the discs j, j + 1, ...
RECURSIVE CollideWith(_, _, _, _)
CollideWith(g, r, i, j) ==
  IF j > Len(r.discs) THEN r
  ELSE Let(CollidePair(g, r, i, j), LAMBDA t : CollideWith(g, t, i, j + 1))

\* the pair loop of update from disc i on
RECURSIVE CollideFrom(_, _, _)
CollideFrom(g, r, i) ==
  IF i > Len(r.discs) THEN r
  ELSE Let(CollideWith(g, r, i, i + 1), LAMBDA t : CollideFrom(g, t, i + 1))

\* Ball-Ball Collisions / Collisions of update
CollideLoop(g, ds) ==
  Let([discs |-> ds, hits |-> <<>>], LAMBDA r : CollideFrom(g, r, 1))

\* the first loop of update from disc i on; acc is [discs, moving, points,
\* foul]: the discs done, isMoving / moving, the points setScore adds, and
\* whether the game-over sound was played
RECURSIVE PhysicsFrom(_, _, _, _)
PhysicsFrom(g, ds, i, acc) ==
  IF i > Len(ds) THEN acc
  ELSE Let(PhysicsDisc(g, ds[i]), LAMBDA p :
       Let([discs |-> Append(acc.discs, p.d),
            moving |-> acc.moving \/ p.moving,
            points |-> acc.points + p.points,
            foul |-> acc.foul \/ p.foul], LAMBDA a : PhysicsFrom(g, ds, i + 1, a)))

Physics(g, ds) ==
  PhysicsFrom(g, ds, 1, [discs |-> <<>>, moving |-> FALSE, points |-> 0, foul |-> FALSE])

\* Turn ended: the striker goes back to the baseline
ToBaseline(d) ==
  Let([d EXCEPT !.vx = 0, !.vy = 0, !.y = BASELINE_Y * Scale], LAMBDA a :
  Let(IF Lt(a.x, STRIKER_RADIUS * Scale)
      THEN [a EXCEPT !.x = STRIKER_RADIUS * Scale] ELSE a, LAMBDA b :
    IF Gt(b.x, (BOARD_SIZE - STRIKER_RADIUS) * Scale)
    THEN [b EXCEPT !.x = (BOARD_SIZE - STRIKER_RADIUS) * Scale] ELSE b))

\* The program's state as a record s:
\*   discs                           gameState.current.balls / .discs
\*   moving                          gameState.current.moving (Pool)
\*   score, gameStatus, canStrike    React state
\*   isAiming, dragStart, dragCurrent  React state (Pool: isDragging)
\*   created                         the disc arrays initGame assigned in this step
\*   foul                            update played the game-over sound
\*   hits                            the pairs update resolved in this step
\*   shot                            the velocity handlePointerUp assigned in this step
Null == [x |-> NaN, y |-> NaN]
NoShot == [vx |-> NaN, vy |-> NaN]

\* ---------------------------------------------------------- initGame

\* row and column of the k-th ball of the rack, k = 0..14 (the loops of
\* initGame: row 0..4, col 0..row)
RackRow(k) == CHOOSE r \in 0..4 : (r * (r + 1)) \div 2 <= k /\ k < ((r + 1) * (r + 2)) \div 2
RackCol(k) == k - (RackRow(k) * (RackRow(k) + 1)) \div 2

\* Math.random() - 0.5 for each of the 15 balls, in 1/Scale px: the draws
\* the model follows
Jitters ==
  { [k \in 0..14 |-> 0],
    [k \in 0..14 |-> IF k % 2 = 0 THEN 40 ELSE -30] }

\* initGame of PoolGame with the jitter jit
InitPool(s, jit) ==
  LET startY == (TABLE_HEIGHT * Scale) \div 4
      startX == (TABLE_WIDTH * Scale) \div 2
      r == BALL_RADIUS * Scale
      cue == Disc(startX, (TABLE_HEIGHT * Scale * 3) \div 4, 0, 0, r, "cue")
      ball(k) == Disc(startX - RackRow(k) * r + RackCol(k) * r * 2 + jit[k],
                      startY - Trunc(RackRow(k) * r * 1732, 1000),
                      0, 0, r, "ball")
  IN [s EXCEPT !.discs = <<cue>> \o [k \in 1..15 |-> ball(k - 1)],
               !.moving = FALSE,
               !.score = 0,
               !.gameStatus = "PLAYING",
               !.created = @ + 1,
               !.hits = <<>>]

\* Math.cos(i * 30 degrees) in 1/Unit, i = 0..11
Cos30 == << 1000, 866, 500, 0, -500, -866, -1000, -866, -500, 0, 500, 866 >>
CosDeg30(i) == Cos30[(i % 12) + 1]
SinDeg30(i) == Cos30[((i + 9) % 12) + 1]

\* initGame of CarromGame
InitCarrom(s) ==
  LET c == (BOARD_SIZE * Scale) \div 2
      r == COIN_RADIUS * Scale
      gap == 2 * Scale
      striker == Disc(c, BASELINE_Y * Scale, 0, 0, STRIKER_RADIUS * Scale, "striker")
      queen == Disc(c, c, 0, 0, r, "queen")
      inner(i) == Disc(c + Trunc(CosDeg30(2 * i) * (r * 2 + gap), Unit),
                       c + Trunc(SinDeg30(2 * i) * (r * 2 + gap), Unit),
                       0, 0, r, IF i % 2 = 0 THEN "white" ELSE "black")
      outer(i) == Disc(c + Trunc(CosDeg30(i) * (r * 4 + gap * 2), Unit),
                       c + Trunc(SinDeg30(i) * (r * 4 + gap * 2), Unit),
                       0, 0, r, IF i % 2 # 0 THEN "white" ELSE "black")
  IN [s EXCEPT !.discs = <<striker, queen>> \o [i \in 1..6 |-> inner(i - 1)]
                         \o [i \in 1..12 |-> outer(i - 1)],
               !.score = 0,
               !.canStrike = TRUE,
               !.created = @ + 1,
               !.hits = <<>>]

\* update of PoolGame with a table that is racked again once it is cleared
UpdatePoolRerack(s) ==
  IF s.gameStatus # "PLAYING" THEN s
  ELSE Let(Physics("pool", s.discs), LAMBDA ph :
       Let(CollideLoop("pool", ph.discs), LAMBDA col :
         IF \A i \in 1..Len(col.discs) : IsCue(col.discs[i]) \/ ~col.discs[i].active
         THEN InitPool(s, [k \in 0..14 |-> 0])
         ELSE [s EXCEPT !.discs = col.discs,
                        !.moving = ph.moving,
                        !.score = s.score + ph.points,
                        !.foul = s.foul \/ ph.foul,
                        !.hits = s.hits \o col.hits]))

\* Win check of PoolGame's update
Won(ds) == \A i \in 1..Len(ds) : IsCue(ds[i]) \/ ~ds[i].active

\* update of PoolGame
UpdatePool(s) ==
  IF s.gameStatus # "PLAYING" THEN s
  ELSE Let(Physics("pool", s.discs), LAMBDA ph :
       Let(CollideLoop("pool", ph.discs), LAMBDA col :
         [s EXCEPT !.discs = col.discs,
                   !.moving = ph.moving,
                   !.score = s.score + ph.points,
                   !.gameStatus = IF Won(col.discs) THEN "GAME_OVER" ELSE @,
                   !.foul = s.foul \/ ph.foul,
                   !.hits = s.hits \o col.hits]))

\* the end of CarromGame's update: Turn ended, or setCanStrike(false)
TurnGate(s, moving) ==
  IF ~moving /\ ~s.canStrike
  THEN [s EXCEPT !.canStrike = TRUE, !.discs[1] = ToBaseline(s.discs[1])]
  ELSE IF moving THEN [s EXCEPT !.canStrike = FALSE]
  ELSE s

\* update of CarromGame; canStrike is the state of the render whose
\* update is running
UpdateCarrom(s) ==
  Let(Physics("carrom", s.discs), LAMBDA ph :
  Let(CollideLoop("carrom", ph.discs), LAMBDA col :
  Let([s EXCEPT !.discs = col.discs,
                !.score = s.score + ph.points,
                !.foul = s.foul \/ ph.foul,
                !.hits = s.hits \o col.hits], LAMBDA t : TurnGate(t, ph.moving))))

Update(g, s) == IF g = "pool" THEN UpdatePool(s) ELSE UpdateCarrom(s)

\* ------------------------------------------------------------ effects

\* the state update can change among the dependencies of the Loop effect:
\* update depends on gameStatus (Pool), on canStrike (Carrom); Carrom's
\* effect also lists score
LoopDeps(g, s) == IF g = "pool" THEN <<s.gameStatus>> ELSE <<s.score, s.canStrike>>

\* The Loop effect, re-run: Carrom's calls initGame when score === 0 &&
\* canStrike; both call render(), that is update(), which may set state
\* and so re-run the effect
RECURSIVE LoopEffect(_, _)
LoopEffect(g, s) ==
  Let(IF g = "carrom" /\ s.score = 0 /\ s.canStrike THEN InitCarrom(s) ELSE s,
      LAMBDA s1 :
  Let(Update(g, s1), LAMBDA s2 :
    IF LoopDeps(g, s2) # LoopDeps(g, s1) THEN LoopEffect(g, s2) ELSE s2))

\* one animation frame: update(), then the effects of the render its
\* state updates cause
Frame(g, s) ==
  Let(Update(g, s), LAMBDA s2 :
    IF LoopDeps(g, s2) # LoopDeps(g, s) THEN LoopEffect(g, s2) ELSE s2)

\* ----------------------------------------------------------- handlers

\* balls.find(b => b.isCue) (Pool), discs[0] (Carrom)
CueIndex(g, s) ==
  IF g = "pool" THEN CHOOSE i \in 1..Len(s.discs) :
                       /\ IsCue(s.discs[i])
                       /\ \A j \in 1..(i - 1) : ~IsCue(s.discs[j])
  ELSE 1

\* the cosine as dx / dist with no value for the angle of (0, 0)
CosAtan2Undefined(dx, dy, dist) == Quot(dx, dist, Unit)

\* Math.cos(Math.atan2(dy, dx)) and Math.sin(Math.atan2(dy, dx)) in
\* 1/Unit, dist the length of (dx, dy); atan2(0, 0) is 0
CosAtan2(dx, dy, dist) == IF dist = 0 THEN Unit ELSE Quot(dx, dist, Unit)
SinAtan2(dx, dy, dist) == IF dist = 0 THEN 0 ELSE Quot(dy, dist, Unit)

\* the launch velocity without the cap on the power
LaunchVelocityUncapped(g, start, cur) ==
  LET dx == Sub(start.x, cur.x)
      dy == Sub(start.y, cur.y)
      m == MathHypot(dx, dy)
      power == IF g = "pool" THEN Times(m, 15, 100) ELSE Times(m, 2, 10)
  IN [vx |-> Mul(power, CosAtan2(dx, dy, m), Unit),
      vy |-> Mul(power, SinAtan2(dx, dy, m), Unit)]

\* the launch velocity of handlePointerUp: power = min(20, m * 0.15)
\* (Pool), min(25, m * 0.2) (Carrom)
LaunchVelocity(g, start, cur) ==
  LET dx == Sub(start.x, cur.x)
      dy == Sub(start.y, cur.y)
      m == MathHypot(dx, dy)
      power == IF g = "pool" THEN MathMin(20 * Scale, Times(m, 15, 100))
               ELSE MathMin(25 * Scale, Times(m, 2, 10))
  IN [vx |-> Mul(power, CosAtan2(dx, dy, m), Unit),
      vy |-> Mul(power, SinAtan2(dx, dy, m), Unit)]

\* Math.max(STRIKER_RADIUS, Math.min(BOARD_SIZE - STRIKER_RADIUS, x))
ClampToBaseline(x) ==
  MathMax(STRIKER_RADIUS * Scale, MathMin((BOARD_SIZE - STRIKER_RADIUS) * Scale, x))

HandlePointerDownPool(s, p) ==
  IF s.moving THEN s
  ELSE LET cue == s.discs[CueIndex("pool", s)]
       IN IF Lt(MathHypot(Sub(p.x, cue.x), Sub(p.y, cue.y)), BALL_RADIUS * 4 * Scale)
          THEN LoopEffect("pool", [s EXCEPT !.isAiming = TRUE,
                                            !.dragStart = p,
                                            !.dragCurrent = p])
          ELSE s

HandlePointerMovePool(s, p) ==
  IF ~s.isAiming THEN s
  ELSE LoopEffect("pool", [s EXCEPT !.dragCurrent = p])

HandlePointerUpPool(s) ==
  IF ~s.isAiming \/ s.dragStart = Null \/ s.dragCurrent = Null THEN s
  ELSE LET v == LaunchVelocity("pool", s.dragStart, s.dragCurrent)
           i == CueIndex("pool", s)
       IN LoopEffect("pool", [s EXCEPT !.discs[i].vx = v.vx,
                                       !.discs[i].vy = v.vy,
                                       !.shot = v,
                                       !.isAiming = FALSE,
                                       !.dragStart = Null,
                                       !.dragCurrent = Null])

HandlePointerDownCarrom(s, p) ==
  IF ~s.canStrike THEN s
  ELSE LET striker == s.discs[1]
       IN IF Lt(MathHypot(Sub(p.x, striker.x), Sub(p.y, striker.y)),
                STRIKER_RADIUS * 2 * Scale)
          THEN LoopEffect("carrom", [s EXCEPT !.isAiming = TRUE,
                                              !.dragStart = p,
                                              !.dragCurrent = p])
          ELSE IF Lt(MathAbs(Sub(p.y, BASELINE_Y * Scale)), 30 * Scale)
          THEN [s EXCEPT !.discs[1].x = ClampToBaseline(p.x),
                         !.discs[1].vx = 0,
                         !.discs[1].vy = 0]
          ELSE s

\* buttons is e.buttons
HandlePointerMoveCarrom(s, p, buttons) ==
  IF ~s.canStrike THEN s
  ELSE IF s.isAiming
  THEN LoopEffect("carrom", [s EXCEPT !.dragCurrent = p])
  ELSE IF Lt(MathAbs(Sub(p.y, BASELINE_Y * Scale)), 30 * Scale) /\ buttons = 1
  THEN [s EXCEPT !.discs[1].x = ClampToBaseline(p.x)]
  ELSE s

HandlePointerUpCarrom(s) ==
  LET launch == s.isAiming /\ s.dragStart # Null /\ s.dragCurrent # Null
      v == LaunchVelocity("carrom", s.dragStart, s.dragCurrent)
      t == IF launch
           THEN [s EXCEPT !.discs[1].vx = v.vx, !.discs[1].vy = v.vy, !.shot = v]
           ELSE s
      u == [t EXCEPT !.isAiming = FALSE, !.dragStart = Null, !.dragCurrent = Null]
  IN IF u.isAiming # s.isAiming \/ u.dragStart # s.dragStart
        \/ u.dragCurrent # s.dragCurrent
     THEN LoopEffect("carrom", u)
     ELSE u

\* the RESET button: onClick = initGame
HandleResetPool(s, jit) ==
  LET t == InitPool(s, jit)
  IN IF t.gameStatus # s.gameStatus THEN LoopEffect("pool", t) ELSE t

HandleResetCarrom(s) ==
  LET t == InitCarrom(s)
  IN IF LoopDeps("carrom", t) # LoopDeps("carrom", s)
     THEN LoopEffect("carrom", t) ELSE t

\* -------------------------------------------------------------- state

VARIABLES game, discs, moving, score, gameStatus, canStrike,
          isAiming, dragStart, dragCurrent, created, foul, hits, shot,
          board, lastEvent, ticks, events

vars == << game, discs, moving, score, gameStatus, canStrike,
           isAiming, dragStart, dragCurrent, created, foul, hits, shot,
           board, lastEvent, ticks, events >>

\* animation frames and input events a behaviour of the model may take
MaxTicks == 2
MaxEvents == 5

\* board is the state of the component of a game without discs (Sokoban,
\* Number Puzzle, Tetris, Memory); the disc games leave it alone
NoBoard == [game |-> "none"]

Cur ==
  [discs |-> discs, moving |-> moving, score |-> score,
   gameStatus |-> gameStatus, canStrike |-> canStrike,
   isAiming |-> isAiming, dragStart |-> dragStart,
   dragCurrent |-> dragCurrent, created |-> 0,
   foul |-> FALSE, hits |-> <<>>, shot |-> NoShot]

Is(s) ==
  /\ discs = s.discs
  /\ moving = s.moving
  /\ score = s.score
  /\ gameStatus = s.gameStatus
  /\ canStrike = s.canStrike
  /\ isAiming = s.isAiming
  /\ dragStart = s.dragStart
  /\ dragCurrent = s.dragCurrent
  /\ created = s.created
  /\ foul = s.foul
  /\ hits = s.hits
  /\ shot = s.shot
  /\ board = NoBoard

Becomes(s) ==
  /\ discs' = s.discs
  /\ moving' = s.moving
  /\ score' = s.score
  /\ gameStatus' = s.gameStatus
  /\ canStrike' = s.canStrike
  /\ isAiming' = s.isAiming
  /\ dragStart' = s.dragStart
  /\ dragCurrent' = s.dragCurrent
  /\ created' = s.created
  /\ foul' = s.foul
  /\ hits' = s.hits
  /\ shot' = s.shot
  /\ board' = board
  /\ game' = game

\* the component before its first render: useState / useRef initial values
Fresh ==
  [discs |-> <<>>, moving |-> FALSE, score |-> 0, gameStatus |-> "IDLE",
   canStrike |-> TRUE, isAiming |-> FALSE, dragStart |-> Null,
   dragCurrent |-> Null, created |-> 0, foul |-> FALSE, hits |-> <<>>,
   shot |-> NoShot]

\* The component once mounted.  Pool: the Loop effect runs update, which
\* returns (IDLE); the second effect calls initGame; gameStatus becomes
\* PLAYING and the Loop effect runs again.  Carrom: the Loop effect calls
\* initGame and runs update.
Mounted(g, jit) ==
  IF g = "pool" THEN LoopEffect("pool", InitPool(Fresh, jit))
  ELSE [LoopEffect("carrom", Fresh) EXCEPT !.gameStatus = "PLAYING"]

Init ==
  /\ game \in Games
  /\ \E jit \in Jitters : \E s \in {Mounted(game, jit)} : Is(s)
  /\ lastEvent = "mount"
  /\ ticks = 0
  /\ events = 0

\* ------------------------------------------------------------ actions

\* where the pointer goes, in table coordinates: on the cue ball / striker,
\* below and left of it, and on Carrom's baseline
PointerOffsets ==
  { Pt(0, 0), Pt(-50 * Scale, 150 * Scale) }

PointerPoints ==
  LET c == discs[CueIndex(game, Cur)]
  IN { Pt(100 * Scale, 505 * Scale) }
     \cup (IF c.x = NaN \/ c.y = NaN THEN {}
           ELSE { Pt(c.x + o.x, c.y + o.y) : o \in PointerOffsets })

\* where a drag goes: the pointer points, and a fifth of a pixel beside
\* the cue ball / striker
PointerTargets ==
  LET c == discs[CueIndex(game, Cur)]
  IN PointerPoints
     \cup (IF c.x = NaN \/ c.y = NaN THEN {} ELSE { Pt(c.x + Scale \div 5, c.y) })

\* requestAnimationFrame(render)
Tick ==
  /\ ticks < MaxTicks
  /\ \E s \in {Frame(game, Cur)} : Becomes(s)
  /\ lastEvent' = "tick"
  /\ ticks' = ticks + 1
  /\ events' = events

PointerDown ==
  /\ events < MaxEvents
  /\ \E p \in PointerPoints :
       \E s \in {IF game = "pool" THEN HandlePointerDownPool(Cur, p)
                 ELSE HandlePointerDownCarrom(Cur, p)} : Becomes(s)
  /\ lastEvent' = "down"
  /\ events' = events + 1
  /\ ticks' = ticks

\* e.buttons is read by Carrom's handler only, and there only when the
\* striker can be slid (canStrike and not aiming)
PointerMove ==
  /\ events < MaxEvents
  /\ \E p \in PointerTargets,
        buttons \in (IF game = "pool" \/ isAiming \/ ~canStrike THEN {0} ELSE {0, 1}) :
       \E s \in {IF game = "pool" THEN HandlePointerMovePool(Cur, p)
                 ELSE HandlePointerMoveCarrom(Cur, p, buttons)} : Becomes(s)
  /\ lastEvent' = "move"
  /\ events' = events + 1
  /\ ticks' = ticks

PointerUp ==
  /\ events < MaxEvents
  /\ \E s \in {IF game = "pool" THEN HandlePointerUpPool(Cur)
               ELSE HandlePointerUpCarrom(Cur)} : Becomes(s)
  /\ lastEvent' = "up"
  /\ events' = events + 1
  /\ ticks' = ticks

Reset ==
  /\ events < MaxEvents
  /\ \E jit \in Jitters :
       \E s \in {IF game = "pool" THEN HandleResetPool(Cur, jit)
                 ELSE HandleResetCarrom(Cur)} : Becomes(s)
  /\ lastEvent' = "reset"
  /\ events' = events + 1
  /\ ticks' = ticks

\* ------------------------------------------------------ placed tables

\* A table in mid-game: the discs in play
\* and, to fill the array initGame created, the discs pocketed so far,
\* with the score they brought.
Pocketed(r, t) ==
  [x |-> r, y |-> r, vx |-> 0, vy |-> 0, radius |-> r, type |-> t, active |-> FALSE]

Ball(px, py, pvx, pvy) == Disc(px, py, pvx, pvy, BALL_RADIUS * Scale, "ball")
CueBall(px, py) == Disc(px, py, 0, 0, BALL_RADIUS * Scale, "cue")
Coin(px, py, pvx, pvy, t) == Disc(px, py, pvx, pvy, COIN_RADIUS * Scale, t)
Striker(px, py, pvx, pvy) == Disc(px, py, pvx, pvy, STRIKER_RADIUS * Scale, "striker")

\* Pool: the cue ball first, as initGame puts it; moving is what the last
\* update left in gameState.current.moving
PoolTable(balls) ==
  [Fresh EXCEPT
     !.discs = balls \o [k \in 1..(16 - Len(balls)) |->
                           Pocketed(BALL_RADIUS * Scale, "ball")],
     !.moving = \E i \in 1..Len(balls) : IsMoving(balls[i]),
     !.score = 100 * (16 - Len(balls)),
     !.gameStatus = "PLAYING"]

\* Carrom: the striker first, the queen pocketed; canStrike is what the
\* last update left
CarromTable(coins) ==
  [Fresh EXCEPT
     !.discs = coins \o [k \in 1..(20 - Len(coins)) |->
                           Pocketed(COIN_RADIUS * Scale,
                                    IF k = 1 THEN "queen"
                                    ELSE IF k % 2 = 0 THEN "white" ELSE "black")],
     !.score = 50 + 10 * (19 - Len(coins)),
     !.canStrike = ~\E i \in 1..Len(coins) : IsMoving(coins[i]),
     !.gameStatus = "PLAYING"]

\* a ball flies into the left cushion; a ball lies on the pocket centre
\* (W, H), another crosses the pocket centre (W, 0) at speed; a ball runs
\* into a ball at rest
PoolCushions ==
  PoolTable(<< CueBall(15000, 45000),
               Ball(2000, 20000, -2000, 300),
               Ball(30000, 60000, 0, 0),
               Ball(30000, 0, -1200, 1200),
               Ball(10000, 40000, 1000, 0),
               Ball(12500, 40000, 0, 0) >>)

\* the cue ball lies on the pocket centre (0, H) while a ball rolls
PoolScratch ==
  PoolTable(<< CueBall(0, 60000), Ball(15000, 30000, 0, -500) >>)

\* a ball at rest on the left cushion is hit by two balls in one tick
PoolCrowd ==
  PoolTable(<< CueBall(15000, 45000),
               Ball(800, 20000, 0, 0),
               Ball(2500, 20000, -1600, 0),
               Ball(800, 23000, 0, -2000) >>)

\* three balls in a row, each overlapping the next, and two overlapping
\* balls that move apart
PoolCluster ==
  PoolTable(<< CueBall(15000, 45000),
               Ball(10000, 30000, 0, 0),
               Ball(11400, 30000, 0, 0),
               Ball(12800, 30000, 0, 0),
               Ball(20000, 20000, -100, 0),
               Ball(21000, 20000, 100, 0) >>)

\* the last ball creeps into the side pocket (0, H / 2)
PoolLastBall ==
  PoolTable(<< CueBall(15000, 45000), Ball(800, 31386, 0, -5) >>)

\* a settled table: the cue ball and one ball
PoolSettled ==
  PoolTable(<< CueBall(15000, 45000), Ball(15000, 15000, 0, 0) >>)

\* the striker lies on the pocket centre (0, 0), a coin on the pocket
\* centre (W, H); a coin flies into the right wall; a coin runs into a
\* coin at rest
CarromCorners ==
  CarromTable(<< Striker(0, 0, 0, 0),
                 Coin(60000, 60000, 0, 0, "white"),
                 Coin(58000, 30000, 2500, 0, "black"),
                 Coin(20000, 20000, 1000, 0, "white"),
                 Coin(23300, 20000, 0, 0, "black") >>)

\* a settled board: the striker on the baseline and one coin
CarromSettled ==
  CarromTable(<< Striker(30000, 50000, 0, 0), Coin(30000, 30000, 0, 0, "white") >>)

\* the striker comes to rest away from the baseline
CarromSettling ==
  CarromTable(<< Striker(20000, 40000, 5, 0), Coin(40000, 30000, 0, 0, "black") >>)

\* the striker has come to rest away from the baseline while a coin
\* still creeps
CarromTurnEnd ==
  CarromTable(<< Striker(20000, 40000, 0, 0), Coin(40000, 30000, 5, 0, "black") >>)

\* the striker runs into a coin off the line of its motion
CarromStrike ==
  CarromTable(<< Striker(30000, 40000, 0, -2000),
                 Coin(31000, 36500, 0, 0, "white") >>)

Tables ==
  { [game |-> "pool", s |-> t] :
      t \in { PoolCushions, PoolScratch, PoolCrowd, PoolCluster,
              PoolLastBall, PoolSettled } }
  \cup { [game |-> "carrom", s |-> t] :
           t \in { CarromCorners, CarromSettled, CarromSettling,
                   CarromTurnEnd, CarromStrike } }

InitTable ==
  /\ \E t \in Tables : game = t.game /\ Is(t.s)
  /\ lastEvent = "placed"
  /\ ticks = 0
  /\ events = 0

Next == Tick \/ PointerDown \/ PointerMove \/ PointerUp \/ Reset

Spec == Init /\ [][Next]_vars

\* one session on a placed table: ticks and pointer events
NextTable == Tick \/ PointerDown \/ PointerMove \/ PointerUp

SpecTable == InitTable /\ [][NextTable]_vars

\* Tables placed with two discs on one centre: two balls at rest, a ball
\* rolling over a ball at rest, two coins at rest, a coin on the striker
PoolStacked ==
  PoolTable(<< CueBall(15000, 45000),
               Ball(15000, 30000, 0, 0),
               Ball(15000, 30000, 0, 0) >>)

PoolRolledOver ==
  PoolTable(<< CueBall(15000, 45000),
               Ball(10000, 29000, 0, 1000),
               Ball(10000, 30000, 0, 0) >>)

CarromStacked ==
  CarromTable(<< Striker(30000, 50000, 0, 0),
                 Coin(30000, 30000, 0, 0, "white"),
                 Coin(30000, 30000, 0, 0, "black") >>)

CarromOnStriker ==
  CarromTable(<< Striker(30000, 50000, 0, 0),
                 Coin(30000, 50000, 0, 0, "white") >>)

CoincidentTables ==
  { [game |-> "pool", s |-> t] : t \in { PoolStacked, PoolRolledOver } }
  \cup { [game |-> "carrom", s |-> t] : t \in { CarromStacked, CarromOnStriker } }

InitCoincident ==
  /\ \E t \in CoincidentTables : game = t.game /\ Is(t.s)
  /\ lastEvent = "placed"
  /\ ticks = 0
  /\ events = 0

\* one session on a table placed with coincident centres
SpecCoincident == InitCoincident /\ [][NextTable]_vars

\* the cue ball still rolls while the last ball drops into the corner
\* pocket (0, 0)
PoolWinningShot ==
  PoolTable(<< Disc(15000, 45000, 0, -1000, BALL_RADIUS * Scale, "cue"),
               Ball(1200, 1200, -300, -300) >>)

\* the only rolling ball drops into the corner pocket (0, 0) while the cue
\* ball and another ball are at rest
PoolPot ==
  PoolTable(<< CueBall(15000, 45000),
               Ball(1200, 1200, -300, -300),
               Ball(15000, 15000, 0, 0) >>)

\* the same with no other ball left
PoolFinalPot ==
  PoolTable(<< CueBall(15000, 45000), Ball(1200, 1200, -300, -300) >>)

RunTables ==
  Tables \cup { [game |-> "pool", s |-> t] :
                  t \in { PoolWinningShot, PoolPot, PoolFinalPot } }

InitRun ==
  /\ \E t \in RunTables : game = t.game /\ Is(t.s)
  /\ lastEvent = "placed"
  /\ ticks = 0
  /\ events = 0

\* requestAnimationFrame(render), frame after frame: the model counts the
\* first MaxTicks frames
Run ==
  /\ \E s \in {Frame(game, Cur)} : Becomes(s)
  /\ lastEvent' = "tick"
  /\ ticks' = IF ticks < MaxTicks THEN ticks + 1 ELSE ticks
  /\ events' = events

\* a table left to itself: no input, and the frames keep coming
SpecRun == InitRun /\ [][Run]_vars /\ WF_vars(Run)

\* the striker comes to rest above the left end of the baseline, where a
\* coin lies with its centre on the baseline
CarromBaselineCoin ==
  CarromTable(<< Striker(1800, 40000, 0, 5), Coin(4000, 50000, 0, 0, "white") >>)

\* the striker comes to rest above a coin that lies across the baseline
CarromAcrossBaseline ==
  CarromTable(<< Striker(30000, 40000, 0, 5), Coin(31000, 50500, 0, 0, "black") >>)

BaselineTables ==
  { [game |-> "carrom", s |-> t] :
      t \in { CarromBaselineCoin, CarromAcrossBaseline } }

InitBaseline ==
  /\ \E t \in BaselineTables : game = t.game /\ Is(t.s)
  /\ lastEvent = "placed"
  /\ ticks = 0
  /\ events = 0

\* a Carrom turn that ends with a coin at the baseline
SpecBaseline == InitBaseline /\ [][NextTable]_vars

\* a ball leaves the left cushion and runs into a ball at rest next to it
PoolOffCushion ==
  PoolTable(<< CueBall(15000, 45000),
               Ball(800, 20000, 200, 0),
               Ball(2000, 20000, 0, 0) >>)

\* a coin leaves the top wall and runs into a coin at rest next to it
CarromOffWall ==
  CarromTable(<< Striker(30000, 50000, 0, 0),
                 Coin(30000, 1200, 0, 300, "white"),
                 Coin(30000, 3000, 0, 0, "black") >>)

CushionTables ==
  { [game |-> "pool", s |-> PoolOffCushion],
    [game |-> "carrom", s |-> CarromOffWall] }

InitCushion ==
  /\ \E t \in CushionTables : game = t.game /\ Is(t.s)
  /\ lastEvent = "placed"
  /\ ticks = 0
  /\ events = 0

\* a disc that has just left a wall collides next to it
SpecCushion == InitCushion /\ [][NextTable]_vars

\* ------------------------------------------------------------ Sokoban

\* the variables of the disc games while another game is mounted
NoDiscs ==
  /\ discs = Fresh.discs /\ moving = Fresh.moving /\ score = Fresh.score
  /\ gameStatus = Fresh.gameStatus /\ canStrike = Fresh.canStrike
  /\ isAiming = Fresh.isAiming /\ dragStart = Fresh.dragStart
  /\ dragCurrent = Fresh.dragCurrent /\ created = Fresh.created
  /\ foul = Fresh.foul /\ hits = Fresh.hits /\ shot = Fresh.shot

\* a step of another game: its handler has made the board b
BoardBecomes(b) ==
  /\ board' = b
  /\ UNCHANGED << game, discs, moving, score, gameStatus, canStrike,
                  isAiming, dragStart, dragCurrent, created, foul, hits,
                  shot >>

\* LEVELS[i].grid, a row being the sequence of its characters
LEVELS == <<
  <<
    <<" "," "," "," ","#","#","#","#","#"," "," "," "," "," "," "," "," "," "," ">>,
    <<" "," "," "," ","#"," "," "," ","#"," "," "," "," "," "," "," "," "," "," ">>,
    <<" "," "," "," ","#","$"," "," ","#"," "," "," "," "," "," "," "," "," "," ">>,
    <<" "," ","#","#","#"," "," ","$","#","#"," "," "," "," "," "," "," "," "," ">>,
    <<" "," ","#"," "," ","$"," ","$"," ","#"," "," "," "," "," "," "," "," "," ">>,
    <<"#","#","#"," ","#"," ","."," ",".","#"," "," "," "," "," "," "," "," "," ">>,
    <<"#"," "," "," ","#"," "," "," ",".","#"," "," "," "," "," "," "," "," "," ">>,
    <<"#"," "," "," "," "," ","#","#","#","#"," "," "," "," "," "," "," "," "," ">>,
    <<"#","#","#","#","#","#","#"," "," "," "," "," "," "," "," "," "," "," "," ">>
  >>,
  <<
    <<"#","#","#","#","#","#","#","#","#","#","#","#">>,
    <<"#",".","."," "," ","#"," "," "," "," "," ","#","#","#">>,
    <<"#",".","."," "," ","#"," ","$"," "," ","$"," "," ","#">>,
    <<"#",".","."," "," ","#","$","#","#","#","#"," "," ","#">>,
    <<"#",".","."," "," "," "," ","@"," ","#","#"," "," ","#">>,
    <<"#",".","."," "," ","#"," "," "," ","$"," "," "," ","#">>,
    <<"#","#","#","#","#","#"," "," "," ","#","#","#","#","#">>,
    <<" "," "," "," "," ","#","#","#","#","#"," "," "," "," ">>
  >>,
  <<
    <<" "," "," "," "," "," "," "," ","#","#","#","#","#","#","#","#"," ">>,
    <<" "," "," "," "," "," "," "," ","#"," "," "," "," "," ","@","#"," ">>,
    <<" "," "," "," "," "," "," "," ","#"," ","$","#","$"," ","#","#"," ">>,
    <<" "," "," "," "," "," "," "," ","#"," ","$"," "," ","$","#"," "," ">>,
    <<" "," "," "," "," "," "," "," ","#","#","$"," ","$"," ","#"," "," ">>,
    <<"#","#","#","#","#","#","#","#","#"," ","."," ","#"," ","#"," "," ">>,
    <<"#",".",".",".","."," "," ","#","#"," ","."," "," "," ","#"," "," ">>,
    <<"#","#",".",".","."," "," "," "," ","."," "," ","#","#","#"," "," ">>,
    <<"#","#","#","#","#","#","#","#","#","#","#"," "," "," "," "," "," ">>
  >>,
  <<
    <<"#","#","#","#","#","#","#","#","#","#">>,
    <<"#"," "," "," "," ","#"," "," "," ","#">>,
    <<"#"," "," ","#"," "," "," ","$"," ","#">>,
    <<"#"," "," ","#","$"," "," ","#"," ","#">>,
    <<"#"," "," ","#"," ","."," ","#"," ","#">>,
    <<"#"," "," ","#"," ","."," ","#"," ","#">>,
    <<"#"," "," ","#"," ","."," ","#"," ","#">>,
    <<"#","@"," ","$"," ","."," "," "," ","#">>,
    <<"#","#","#","#","#","#","#","#","#","#">>
  >>
>>

\* rawGrid[y][x] || ' ' (x, y from 0)
CharAt(rawGrid, x, y) ==
  IF x < Len(rawGrid[y + 1]) THEN rawGrid[y + 1][x + 1] ELSE " "

\* the longest row of rawGrid up to row n
RECURSIVE RowWidth(_, _)
RowWidth(rawGrid, n) ==
  IF n = 0 THEN 0 ELSE MathMax(RowWidth(rawGrid, n - 1), Len(rawGrid[n]))

\* the cells (x, y) of a width x height grid in the order the two loops of
\* loadLevel visit them
ScanOrder(width, height) ==
  [k \in 1..(width * height) |->
     [x |-> (k - 1) % width, y |-> (k - 1) \div width]]

\* the static cell loadLevel pushes for a character
StaticCell(char) ==
  IF char = "#" THEN "WALL"
  ELSE IF char \in {".", "*", "+"} THEN "TARGET"
  ELSE "FLOOR"

\* loadLevel(index): the level's static grid, boxes and player, moves 0,
\* isWin false
LoadLevel(index) ==
  LET safeIndex == index % Len(LEVELS)
      rawGrid == LEVELS[safeIndex + 1]
      height == Len(rawGrid)
      width == RowWidth(rawGrid, height)
      cells == ScanOrder(width, height)
      starts == SelectSeq(cells, LAMBDA p : CharAt(rawGrid, p.x, p.y) \in {"@", "+"})
  IN [levelIndex |-> index,
      staticGrid |-> [y \in 1..height |->
                        [x \in 1..width |-> StaticCell(CharAt(rawGrid, x - 1, y - 1))]],
      boxes |-> SelectSeq(cells, LAMBDA p : CharAt(rawGrid, p.x, p.y) \in {"$", "*"}),
      player |-> IF Len(starts) = 0 THEN [x |-> 1, y |-> 1]
                 ELSE starts[Len(starts)],
      moves |-> 0,
      isWin |-> FALSE]

\* isWall(x, y): outside the grid, or a WALL cell
IsWall(b, x, y) ==
  IF y < 0 \/ y >= Len(b.staticGrid) \/ x < 0 \/ x >= Len(b.staticGrid[1])
  THEN TRUE
  ELSE b.staticGrid[y + 1][x + 1] = "WALL"

\* getBoxIndex(x, y): the first box at (x, y), from 0, or -1
GetBoxIndex(b, x, y) ==
  LET at == { i \in 1..Len(b.boxes) : b.boxes[i].x = x /\ b.boxes[i].y = y }
  IN IF at = {} THEN -1
     ELSE (CHOOSE i \in at : \A j \in at : i <= j) - 1

\* checkWin(currentBoxes): every box on a TARGET
CheckWin(b, currentBoxes) ==
  \A i \in 1..Len(currentBoxes) :
    b.staticGrid[currentBoxes[i].y + 1][currentBoxes[i].x + 1] = "TARGET"

\* move without the test for a box beyond the pushed box
MovePushesThrough(b, dx, dy) ==
  LET newX == b.player.x + dx
      newY == b.player.y + dy
      boxIdx == GetBoxIndex(b, newX, newY)
  IN IF b.isWin \/ IsWall(b, newX, newY) THEN b
     ELSE IF boxIdx # -1
     THEN IF IsWall(b, newX + dx, newY + dy) THEN b
          ELSE LET newBoxes == [b.boxes EXCEPT
                                  ![boxIdx + 1] = [x |-> newX + dx, y |-> newY + dy]]
               IN [b EXCEPT !.boxes = newBoxes,
                            !.player = [x |-> newX, y |-> newY],
                            !.moves = b.moves + 1,
                            !.isWin = CheckWin(b, newBoxes)]
     ELSE [b EXCEPT !.player = [x |-> newX, y |-> newY],
                    !.moves = b.moves + 1]

\* move(dx, dy)
Move(b, dx, dy) ==
  LET newX == b.player.x + dx
      newY == b.player.y + dy
      boxIdx == GetBoxIndex(b, newX, newY)
      boxNextX == newX + dx
      boxNextY == newY + dy
  IN IF b.isWin THEN b
     ELSE IF IsWall(b, newX, newY) THEN b
     ELSE IF boxIdx # -1
     THEN IF IsWall(b, boxNextX, boxNextY)
             \/ GetBoxIndex(b, boxNextX, boxNextY) # -1
          THEN b
          ELSE LET newBoxes == [b.boxes EXCEPT
                                  ![boxIdx + 1] = [x |-> boxNextX, y |-> boxNextY]]
               IN [b EXCEPT !.boxes = newBoxes,
                            !.player = [x |-> newX, y |-> newY],
                            !.moves = b.moves + 1,
                            !.isWin = CheckWin(b, newBoxes)]
     ELSE [b EXCEPT !.player = [x |-> newX, y |-> newY],
                    !.moves = b.moves + 1]

\* (dx, dy) of ArrowUp, ArrowDown, ArrowLeft, ArrowRight and of the Dpad
Directions == { <<0, -1>>, <<0, 1>>, <<-1, 0>>, <<1, 0>> }

\* the component once mounted: the effect has called loadLevel(levelIndex),
\* levelIndex being 0 or the level localStorage holds
InitSokoban ==
  /\ game = "sokoban"
  /\ NoDiscs
  /\ \E index \in 0..(Len(LEVELS) - 1) : board = LoadLevel(index)
  /\ lastEvent = "mount"
  /\ ticks = 0
  /\ events = 0

\* an arrow key or a Dpad button: move(dx, dy)
Arrow ==
  /\ events < MaxEvents
  /\ \E d \in Directions : BoardBecomes(Move(board, d[1], d[2]))
  /\ lastEvent' = "move"
  /\ events' = events + 1
  /\ ticks' = ticks

\* the key r or the RESET button: loadLevel(levelIndex)
Reload ==
  /\ events < MaxEvents
  /\ BoardBecomes(LoadLevel(board.levelIndex))
  /\ lastEvent' = "load"
  /\ events' = events + 1
  /\ ticks' = ticks

\* NEXT LEVEL is rendered only while isWin, which no level reaches
NextSokoban == Arrow \/ Reload

SpecSokoban == InitSokoban /\ [][NextSokoban]_vars

\* ------------------------------------------------------- Number Puzzle

\* Math.random() in twelfths, and the sequences of its values a shuffle
\* is run with: a pattern of RollPeriod values, repeated
Rolls == {0, 4, 8}
RollPeriod == 3
RollPatterns == [1..RollPeriod -> Rolls]

\* the cells the blank at emptyIdx can trade places with, in the order
\* initGame pushes them: Up, Down, Left, Right
Neighbors(gridSize, emptyIdx) ==
  LET row == emptyIdx \div gridSize
      col == emptyIdx % gridSize
  IN (IF row > 0 THEN << emptyIdx - gridSize >> ELSE << >>)
     \o (IF row < gridSize - 1 THEN << emptyIdx + gridSize >> ELSE << >>)
     \o (IF col > 0 THEN << emptyIdx - 1 >> ELSE << >>)
     \o (IF col < gridSize - 1 THEN << emptyIdx + 1 >> ELSE << >>)

\* [a[i], a[j]] = [a[j], a[i]] (i, j from 0)
Swap(a, i, j) == [a EXCEPT ![i + 1] = a[j + 1], ![j + 1] = a[i + 1]]

\* one iteration of the shuffle loop of initGame; st is [currentTiles,
\* emptyIdx, previousIdx]
ShuffleStep(gridSize, pattern, i, st) ==
  LET neighbors == Neighbors(gridSize, st.emptyIdx)
      validNeighbors == SelectSeq(neighbors, LAMBDA n : n # st.previousIdx)
      candidates == IF Len(validNeighbors) > 0 THEN validNeighbors
                    ELSE neighbors
      roll == pattern[(i % RollPeriod) + 1]
      randomNeighbor == candidates[((roll * Len(candidates)) \div 12) + 1]
  IN [currentTiles |-> Swap(st.currentTiles, st.emptyIdx, randomNeighbor),
      emptyIdx |-> randomNeighbor,
      previousIdx |-> st.emptyIdx]

\* the iterations i .. j - 1 of the shuffle loop of initGame, run in order
RECURSIVE ShuffleFrom(_, _, _, _, _)
ShuffleFrom(gridSize, pattern, i, j, st) ==
  IF j <= i THEN st
  ELSE IF j = i + 1 THEN ShuffleStep(gridSize, pattern, i, st)
  ELSE Let(ShuffleFrom(gridSize, pattern, i, (i + j) \div 2, st), LAMBDA t :
         ShuffleFrom(gridSize, pattern, (i + j) \div 2, j, t))

\* solved of initGame: [1, 2, ..., N - 1, 0]
SolvedTiles(gridSize) ==
  [k \in 1..(gridSize * gridSize) |-> k % (gridSize * gridSize)]

\* currentTiles of initGame after the shuffle
Shuffled(gridSize, pattern) ==
  ShuffleFrom(gridSize, pattern, 0, gridSize * gridSize * 10,
              [currentTiles |-> SolvedTiles(gridSize),
               emptyIdx |-> gridSize * gridSize - 1,
               previousIdx |-> -1]).currentTiles

\* the boards initGame deals on the 3 x 3 and the 4 x 4 grid
Deals3 == { Shuffled(3, pattern) : pattern \in RollPatterns }
Deals4 == { Shuffled(4, pattern) : pattern \in RollPatterns }
Deals(gridSize) ==
  IF gridSize = 3 THEN Deals3
  ELSE IF gridSize = 4 THEN Deals4
  ELSE { Shuffled(gridSize, pattern) : pattern \in RollPatterns }

\* initGame with the shuffle's outcome currentTiles
InitPuzzle(b, currentTiles) ==
  IF b.gridSize < 3 THEN b
  ELSE [b EXCEPT !.tiles = currentTiles, !.moves = 0, !.isSolved = FALSE]

\* checkWin(currentTiles) of the puzzle
CheckSolved(gridSize, currentTiles) ==
  \A i \in 0..(gridSize * gridSize - 2) : currentTiles[i + 1] = i + 1

\* tiles.indexOf(0)
IndexOfBlank(tiles) ==
  IF \E k \in 1..Len(tiles) : tiles[k] = 0
  THEN (CHOOSE k \in 1..Len(tiles) :
          tiles[k] = 0 /\ \A m \in 1..Len(tiles) : tiles[m] = 0 => k <= m) - 1
  ELSE -1

\* dist of moveTile: the Manhattan distance of the cells index and emptyIndex
ManhattanDistance(gridSize, index, emptyIndex) ==
  Abs((index \div gridSize) - (emptyIndex \div gridSize))
    + Abs((index % gridSize) - (emptyIndex % gridSize))

\* moveTile swapping the clicked tile with the blank wherever it is
MoveTileFromAnywhere(b, index) ==
  IF b.isSolved THEN b
  ELSE LET newTiles == Swap(b.tiles, index, IndexOfBlank(b.tiles))
       IN [b EXCEPT !.tiles = newTiles,
                    !.moves = b.moves + 1,
                    !.isSolved = CheckSolved(b.gridSize, newTiles)]

\* moveTile(index)
MoveTile(b, index) ==
  IF b.isSolved THEN b
  ELSE LET emptyIndex == IndexOfBlank(b.tiles)
       IN IF ManhattanDistance(b.gridSize, index, emptyIndex) = 1
          THEN LET newTiles == Swap(b.tiles, index, emptyIndex)
               IN [b EXCEPT !.tiles = newTiles,
                            !.moves = b.moves + 1,
                            !.isSolved = CheckSolved(b.gridSize, newTiles)]
          ELSE b

\* the component once mounted, nothing saved: level 1, setGridSize(3), and
\* the effect has called initGame
InitNumberPuzzle ==
  /\ game = "puzzle"
  /\ NoDiscs
  /\ \E currentTiles \in Deals(3) :
       board = InitPuzzle([level |-> 1, gridSize |-> 3, tiles |-> << >>,
                           moves |-> 0, isSolved |-> FALSE], currentTiles)
  /\ lastEvent = "mount"
  /\ ticks = 0
  /\ events = 0

\* a click on a tile; the button of the blank is disabled, and so is every
\* button of a solved board
ClickTile ==
  /\ events < MaxEvents
  /\ ~board.isSolved
  /\ \E index \in 0..(Len(board.tiles) - 1) :
       /\ board.tiles[index + 1] # 0
       /\ BoardBecomes(MoveTile(board, index))
  /\ lastEvent' = "click"
  /\ events' = events + 1
  /\ ticks' = ticks

\* RESET: initGame
ResetPuzzle ==
  /\ events < MaxEvents
  /\ \E currentTiles \in Deals(board.gridSize) :
       BoardBecomes(InitPuzzle(board, currentTiles))
  /\ lastEvent' = "reset"
  /\ events' = events + 1
  /\ ticks' = ticks

\* NEXT LEVEL, shown on a solved board: nextLevel; the effects set the grid
\* size to level + 2 and call initGame
NextPuzzleLevel ==
  /\ events < MaxEvents
  /\ board.isSolved
  /\ \E currentTiles \in Deals(board.level + 3) :
       BoardBecomes(InitPuzzle([board EXCEPT !.level = board.level + 1,
                                             !.gridSize = board.level + 3],
                               currentTiles))
  /\ lastEvent' = "level"
  /\ events' = events + 1
  /\ ticks' = ticks

NextNumberPuzzle == ClickTile \/ ResetPuzzle \/ NextPuzzleLevel

SpecNumberPuzzle == InitNumberPuzzle /\ [][NextNumberPuzzle]_vars

\* ------------------------------------------------------------- Tetris

ROWS == 20
COLS == 10
SPEEDS == << 800, 700, 600, 500, 400, 300, 200, 100, 50 >>

TETROMINOS ==
  [I |-> [shape |-> << <<1, 1, 1, 1>> >>, color |-> "#06b6d4"],
   J |-> [shape |-> << <<1, 0, 0>>, <<1, 1, 1>> >>, color |-> "#3b82f6"],
   L |-> [shape |-> << <<0, 0, 1>>, <<1, 1, 1>> >>, color |-> "#f97316"],
   O |-> [shape |-> << <<1, 1>>, <<1, 1>> >>, color |-> "#eab308"],
   S |-> [shape |-> << <<0, 1, 1>>, <<1, 1, 0>> >>, color |-> "#22c55e"],
   T |-> [shape |-> << <<0, 1, 0>>, <<1, 1, 1>> >>, color |-> "#a855f7"],
   Z |-> [shape |-> << <<1, 1, 0>>, <<0, 1, 1>> >>, color |-> "#ef4444"]]

\* Object.keys(TETROMINOS)
TetrominoKeys == {"I", "J", "L", "O", "S", "T", "Z"}

\* a cell of the grid that holds no block (0 in the source; a locked cell
\* holds its colour)
EmptyCell == ""
EmptyRow == [c \in 1..COLS |-> EmptyCell]

\* getRandomPiece(), key being the key Math.random() picks
GetRandomPiece(key) ==
  [shape |-> TETROMINOS[key].shape,
   color |-> TETROMINOS[key].color,
   x |-> (COLS \div 2) - ((Len(TETROMINOS[key].shape[1]) + 1) \div 2),
   y |-> 0]

\* the filled cells (x, y) of a piece
Cells(piece) ==
  { [x |-> piece.x + c - 1, y |-> piece.y + r - 1] :
      <<r, c>> \in { rc \in (1..Len(piece.shape)) \X (1..Len(piece.shape[1])) :
                       piece.shape[rc[1]][rc[2]] = 1 } }

\* isValidMove(piece, grid)
IsValidMove(piece, grid) ==
  \A p \in Cells(piece) :
    ~(\/ p.x < 0 \/ p.x >= COLS \/ p.y >= ROWS
      \/ (p.y >= 0 /\ grid[p.y + 1][p.x + 1] # EmptyCell))

\* rotatePiece(piece): row index of the new shape is column index of the
\* old one, read from the bottom row up
RotatePiece(piece) ==
  [piece EXCEPT !.shape =
     [index \in 1..Len(piece.shape[1]) |->
        [k \in 1..Len(piece.shape) |->
           piece.shape[Len(piece.shape) + 1 - k][index]]]]

\* the first step of mergePiece: the piece's cells take its colour
Locked(grid, piece) ==
  [r \in 1..ROWS |->
     [c \in 1..COLS |->
        IF [x |-> c - 1, y |-> r - 1] \in Cells(piece) THEN piece.color
        ELSE grid[r][c]]]

\* the line loop of mergePiece: full rows are spliced out and empty rows
\* unshifted
ClearLines(grid) ==
  LET kept == SelectSeq(grid, LAMBDA row : \E c \in 1..COLS : row[c] = EmptyCell)
  IN [grid |-> [k \in 1..(ROWS - Len(kept)) |-> EmptyRow] \o kept,
      linesCleared |-> ROWS - Len(kept)]

\* mergePiece(), key being the key of the next getRandomPiece()
MergePiece(b, key) ==
  Let(ClearLines(Locked(b.grid, b.currentPiece)), LAMBDA cl :
    LET newScore == b.score + cl.linesCleared * 100 * cl.linesCleared
        newLevel == (newScore \div 500) + 1
        scored == IF cl.linesCleared > 0
                  THEN [b EXCEPT !.score = newScore,
                                 !.scoreState = newScore,
                                 !.level = IF newLevel > b.level THEN newLevel
                                           ELSE b.level,
                                 !.levelState = IF newLevel > b.level
                                                THEN newLevel ELSE b.levelState]
                  ELSE b
        next == GetRandomPiece(key)
    IN IF IsValidMove(next, cl.grid)
       THEN [scored EXCEPT !.grid = cl.grid, !.currentPiece = next]
       ELSE [scored EXCEPT !.grid = cl.grid, !.currentPiece = next,
                           !.isPlaying = FALSE, !.gameOver = TRUE])

\* update(time) as the render loop calls it.  The loop's effect has the
\* dependencies [initGame] and initGame never changes, so render keeps the
\* update of the first render, whose isPaused is updateIsPaused
UpdateTetris(b, time, key) ==
  IF ~b.isPlaying \/ b.updateIsPaused THEN b
  ELSE LET dropCounter == b.dropCounter + (time - b.lastTime)
           speed == SPEEDS[MathMin(b.level - 1, Len(SPEEDS) - 1) + 1]
           timed == [b EXCEPT !.lastTime = time, !.dropCounter = dropCounter]
       IN IF dropCounter > speed
          THEN LET nextPos == [b.currentPiece EXCEPT !.y = b.currentPiece.y + 1]
               IN IF IsValidMove(nextPos, b.grid)
                  THEN [timed EXCEPT !.currentPiece = nextPos, !.dropCounter = 0]
                  ELSE [MergePiece(timed, key) EXCEPT !.dropCounter = 0]
          ELSE timed

\* handleInput(action); its useCallback has the dependency [isPaused]
HandleInput(b, action) ==
  IF ~b.isPlaying \/ b.isPaused THEN b
  ELSE LET piece == b.currentPiece
           moved == IF action = "LEFT" THEN [piece EXCEPT !.x = piece.x - 1]
                    ELSE IF action = "RIGHT" THEN [piece EXCEPT !.x = piece.x + 1]
                    ELSE IF action = "DOWN" THEN [piece EXCEPT !.y = piece.y + 1]
                    ELSE RotatePiece(piece)
           tryLeft == [moved EXCEPT !.x = moved.x - 1]
           tryRight == [moved EXCEPT !.x = moved.x + 1]
       IN IF IsValidMove(moved, b.grid) THEN [b EXCEPT !.currentPiece = moved]
          ELSE IF action # "ROTATE" THEN b
          ELSE IF IsValidMove(tryLeft, b.grid)
          THEN [b EXCEPT !.currentPiece = tryLeft]
          ELSE IF IsValidMove(tryRight, b.grid)
          THEN [b EXCEPT !.currentPiece = tryRight]
          ELSE b

\* initGame(), key being the key of its getRandomPiece()
InitTetris(b, key) ==
  [b EXCEPT !.grid = [r \in 1..ROWS |-> EmptyRow],
            !.currentPiece = GetRandomPiece(key),
            !.score = 0, !.level = 1, !.dropCounter = 0, !.lastTime = 0,
            !.isPlaying = TRUE,
            !.scoreState = 0, !.levelState = 1, !.gameOver = FALSE,
            !.isPaused = FALSE]

\* the time of the animation frame that follows the mount, and the time
\* between two frames, in milliseconds
FirstFrame == 1000
FrameGap == 17

\* The component once mounted: the effect has called initGame() and
\* render(0), whose update(0) adds nothing to dropCounter.  clock is the
\* time of the last animation frame
MountedTetris(key) ==
  InitTetris([grid |-> << >>, currentPiece |-> GetRandomPiece(key),
              score |-> 0, level |-> 1, dropCounter |-> 0, lastTime |-> 0,
              isPlaying |-> FALSE, scoreState |-> 0, levelState |-> 1,
              gameOver |-> FALSE, isPaused |-> FALSE,
              updateIsPaused |-> FALSE, clock |-> FirstFrame - FrameGap], key)

\* a game in progress: the bottom row lacks the four cells under the I
\* piece, which lies on the floor
AlmostLine ==
  [MountedTetris("I") EXCEPT
     !.grid = [r \in 1..ROWS |->
                 IF r < ROWS THEN EmptyRow
                 ELSE [c \in 1..COLS |->
                         IF c \in 4..7 THEN EmptyCell
                         ELSE TETROMINOS["O"].color]],
     !.currentPiece = [GetRandomPiece("I") EXCEPT !.y = ROWS - 1],
     !.lastTime = FirstFrame - FrameGap,
     !.dropCounter = SPEEDS[1] - 8]

InitTetrisGame ==
  /\ game = "tetris"
  /\ NoDiscs
  /\ board \in { MountedTetris(key) : key \in TetrominoKeys } \cup { AlmostLine }
  /\ lastEvent = "mount"
  /\ ticks = 0
  /\ events = 0

\* an animation frame: render(time)
TetrisFrame ==
  /\ ticks < MaxTicks
  /\ \E key \in TetrominoKeys :
       BoardBecomes([UpdateTetris(board, board.clock + FrameGap, key)
                       EXCEPT !.clock = board.clock + FrameGap])
  /\ lastEvent' = "tick"
  /\ ticks' = ticks + 1
  /\ events' = events

\* an arrow key, or a button of the controls: handleInput(action)
TetrisInput ==
  /\ events < MaxEvents
  /\ \E action \in {"LEFT", "RIGHT", "DOWN", "ROTATE"} :
       BoardBecomes(HandleInput(board, action))
  /\ lastEvent' = "input"
  /\ events' = events + 1
  /\ ticks' = ticks

\* the space key: setIsPaused(p => !p)
TetrisPause ==
  /\ events < MaxEvents
  /\ BoardBecomes([board EXCEPT !.isPaused = ~board.isPaused])
  /\ lastEvent' = "pause"
  /\ events' = events + 1
  /\ ticks' = ticks

\* RESET or TRY AGAIN: initGame()
TetrisReset ==
  /\ events < MaxEvents
  /\ \E key \in TetrominoKeys : BoardBecomes(InitTetris(board, key))
  /\ lastEvent' = "reset"
  /\ events' = events + 1
  /\ ticks' = ticks

NextTetris == TetrisFrame \/ TetrisInput \/ TetrisPause \/ TetrisReset

SpecTetris == InitTetrisGame /\ [][NextTetris]_vars

\* ------------------------------------------------------------- Memory

\* pairs of initGame before the shuffle: [0, 0, 1, 1, ..., 7, 7]
Pairs == [k \in 1..16 |-> (k - 1) \div 2]

\* the shuffle loop of initGame from index i down to 1, every Math.random()
\* giving roll twelfths
RECURSIVE ShufflePairs(_, _, _)
ShufflePairs(pairs, i, roll) ==
  IF i <= 0 THEN pairs
  ELSE ShufflePairs(Swap(pairs, i, (roll * (i + 1)) \div 12), i - 1, roll)

\* the icon orders initGame deals
Decks == { ShufflePairs(Pairs, Len(Pairs) - 1, roll) : roll \in Rolls }

\* newCards of initGame for the shuffled pairs
NewCards(pairs) ==
  [k \in 1..Len(pairs) |->
     [id |-> k - 1, iconId |-> pairs[k], isFlipped |-> FALSE,
      isMatched |-> FALSE]]

\* initGame() with the shuffled pairs; timeouts already set stay pending.
\* dealt is the deck dealt, untouched says that no card was clicked since
InitMemory(b, pairs) ==
  [b EXCEPT !.cards = NewCards(pairs), !.flippedIndices = << >>,
            !.moves = 0, !.isWin = FALSE, !.isProcessing = FALSE,
            !.dealt = NewCards(pairs), !.untouched = TRUE]

\* handleCardClick(index): the card is flipped; with two cards flipped a
\* timeout is set that holds newCards, the two indices and moves
HandleCardClick(b, index) ==
  IF b.isProcessing \/ b.cards[index + 1].isFlipped
       \/ b.cards[index + 1].isMatched
  THEN b
  ELSE LET newCards == [b.cards EXCEPT ![index + 1].isFlipped = TRUE]
           newFlipped == Append(b.flippedIndices, index)
           flipped == [b EXCEPT !.cards = newCards,
                                !.flippedIndices = newFlipped]
       IN IF Len(newFlipped) = 2
          THEN [flipped EXCEPT
                  !.moves = b.moves + 1,
                  !.isProcessing = TRUE,
                  !.timeouts = Append(b.timeouts,
                     [delay |-> IF newCards[newFlipped[1] + 1].iconId
                                     = newCards[newFlipped[2] + 1].iconId
                                THEN 300 ELSE 800,
                      newCards |-> newCards,
                      idx1 |-> newFlipped[1], idx2 |-> newFlipped[2],
                      moves |-> b.moves])]
          ELSE flipped

\* the callback of the 300 ms timeout: Match found
MatchFound(b, t) ==
  LET matchedCards == [t.newCards EXCEPT
                         ![t.idx1 + 1].isMatched = TRUE,
                         ![t.idx2 + 1].isMatched = TRUE,
                         ![t.idx1 + 1].isFlipped = TRUE,
                         ![t.idx2 + 1].isFlipped = TRUE]
      shown == [b EXCEPT !.cards = matchedCards, !.flippedIndices = << >>,
                         !.isProcessing = FALSE]
  IN IF \A k \in 1..Len(matchedCards) : matchedCards[k].isMatched
     THEN IF b.saved = 0 \/ t.moves + 1 < b.saved
          THEN [shown EXCEPT !.isWin = TRUE, !.bestScore = t.moves + 1,
                             !.saved = t.moves + 1]
          ELSE [shown EXCEPT !.isWin = TRUE]
     ELSE shown

\* the callback of the 800 ms timeout: No match
NoMatch(b, t) ==
  [b EXCEPT !.cards = [t.newCards EXCEPT ![t.idx1 + 1].isFlipped = FALSE,
                                         ![t.idx2 + 1].isFlipped = FALSE],
            !.flippedIndices = << >>,
            !.isProcessing = FALSE]

\* the callback of the k-th pending timeout runs
Timeout(b, k) ==
  LET t == b.timeouts[k]
      rest == [m \in 1..(Len(b.timeouts) - 1) |->
                 IF m < k THEN b.timeouts[m] ELSE b.timeouts[m + 1]]
  IN IF t.delay = 300 THEN MatchFound([b EXCEPT !.timeouts = rest], t)
     ELSE NoMatch([b EXCEPT !.timeouts = rest], t)

\* the pending timeout k can be the next to run: no timeout set before it
\* with the same or a shorter delay is pending
Due(b, k) ==
  \A m \in 1..(k - 1) : b.timeouts[m].delay > b.timeouts[k].delay

\* the cards a click of the model may land on
ClickTargets == 0..5

\* the component once mounted: nothing saved, the effect has called initGame
InitMemoryGame ==
  /\ game = "memory"
  /\ NoDiscs
  /\ \E pairs \in Decks :
       board = InitMemory([cards |-> << >>, moves |-> 0, bestScore |-> 0,
                           flippedIndices |-> << >>, isProcessing |-> FALSE,
                           isWin |-> FALSE, timeouts |-> << >>, saved |-> 0,
                           dealt |-> << >>, untouched |-> TRUE], pairs)
  /\ lastEvent = "mount"
  /\ ticks = 0
  /\ events = 0

\* a click on a card
MemoryClick ==
  /\ events < MaxEvents
  /\ \E index \in ClickTargets :
       BoardBecomes([HandleCardClick(board, index) EXCEPT !.untouched = FALSE])
  /\ lastEvent' = "click"
  /\ events' = events + 1
  /\ ticks' = ticks

\* RESET or PLAY AGAIN: initGame()
MemoryReset ==
  /\ events < MaxEvents
  /\ \E pairs \in Decks : BoardBecomes(InitMemory(board, pairs))
  /\ lastEvent' = "reset"
  /\ events' = events + 1
  /\ ticks' = ticks

\* a pending timeout runs
MemoryTimeout ==
  /\ ticks < MaxTicks
  /\ \E k \in 1..Len(board.timeouts) :
       /\ Due(board, k)
       /\ BoardBecomes(Timeout(board, k))
  /\ lastEvent' = "timeout"
  /\ ticks' = ticks + 1
  /\ events' = events

NextMemory == MemoryClick \/ MemoryReset \/ MemoryTimeout

SpecMemory == InitMemoryGame /\ [][NextMemory]_vars

\* ------------------------------------------------------------- claims

Indices == 1..Len(discs)
Distance(d1, d2) == MathHypot(Sub(d2.x, d1.x), Sub(d2.y, d1.y))
\* the distance a resolved pair may fall short of tangency by: the
\* truncations of the fixed-point overlap correction
Tolerance == Scale \div 10

\* the disc as the Walls step of a tick leaves it
AfterWalls(d) == Walls(game, Integrate(game, d))

\* C1: in every reachable table state of Pool and of Carrom, every active
\* disc, integrated and passed through the four wall tests, has its centre
\* in [radius, W - radius] x [radius, H - radius], whatever its velocity
\* and position were.
C1_WallsKeepInside ==
  \A i \in Indices : discs[i].active =>
    \A w \in {AfterWalls(discs[i])} :
      /\ w.radius <= w.x /\ w.x <= Width(game) - w.radius
      /\ w.radius <= w.y /\ w.y <= Height(game) - w.radius

\* a tick has put a disc that flew into the left wall back on it, turned round
C1_Clamped ==
  /\ lastEvent = "tick"
  /\ \E i \in Indices :
       discs[i].active /\ discs[i].x = discs[i].radius /\ discs[i].vx > 0

\* C2: at the end of every tick the centre of every active disc lies in
\* the closed table rectangle [0, W] x [0, H].
C2_InsideTable ==
  \A i \in Indices : discs[i].active =>
    /\ 0 <= discs[i].x /\ discs[i].x <= Width(game)
    /\ 0 <= discs[i].y /\ discs[i].y <= Height(game)

\* the discs and the resolved pairs as the two loops of update leave them
AfterLoop == CollideLoop(game, Physics(game, discs).discs)

\* C3 as stated: after the pair loop every two active discs are at least
\* the sum of their radii apart, up to the tolerance.
C3_NoOverlapAfterLoop ==
  \A r \in {AfterLoop} :
    \A i, j \in Indices :
      (i < j /\ r.discs[i].active /\ r.discs[j].active)
        => Distance(r.discs[i], r.discs[j])
             >= r.discs[i].radius + r.discs[j].radius - Tolerance

\* the pair hits[k] is the only resolved pair either of its discs is in
ResolvedAlone(h, k) ==
  \A m \in 1..Len(h) :
    m # k => {h[m][1], h[m][2]} \cap {h[k][1], h[k][2]} = {}

\* C3: after the pair loop, every pair the loop resolved (overlapping and
\* not separating), neither disc of which was in another resolved pair of
\* the tick, is at least the sum of the radii apart, up to the tolerance.
C3_ResolvedPairsApart ==
  \A r \in {AfterLoop} :
    \A k \in 1..Len(r.hits) :
      ResolvedAlone(r.hits, k)
        => Distance(r.discs[r.hits[k][1]], r.discs[r.hits[k][2]])
             >= r.discs[r.hits[k][1]].radius + r.discs[r.hits[k][2]].radius
                  - Tolerance

\* a tick has resolved one pair, and no other
C3_OnePairResolved ==
  /\ lastEvent = "tick"
  /\ Len(hits) = 1
  /\ Distance(discs[hits[1][1]], discs[hits[1][2]])
       < discs[hits[1][1]].radius + discs[hits[1][2]].radius + Tolerance


Ordinary(d) == ~IsCue(d)
AtRest(d) == d.vx = 0 /\ d.vy = 0
AtPocketCentre(d) ==
  \E k \in 1..Len(Pockets(game)) : d.x = Pockets(game)[k].x /\ d.y = Pockets(game)[k].y
AtLaunchPoint(d) == d.x = LaunchPoint(game).x /\ d.y = LaunchPoint(game).y
IsTick == ticks' = ticks + 1

\* an ordinary disc, once inactive, is inactive after the step
StaysInactive ==
  \A i \in Indices :
    (Ordinary(discs[i]) /\ ~discs[i].active)
      => (i \in 1..Len(discs') /\ ~discs'[i].active)

\* C4 as stated: an ordinary active disc whose centre is on a pocket
\* centre is inactive after the next tick, whatever its velocity, and an
\* inactive ordinary disc stays inactive.
C4_CapturedNextTick ==
  [][/\ IsTick =>
          \A i \in Indices :
            (Ordinary(discs[i]) /\ discs[i].active /\ AtPocketCentre(discs[i]))
              => ~discs'[i].active
     /\ StaysInactive]_vars

\* C4: an ordinary active disc that lies at rest on a pocket centre is
\* inactive after the next tick, and an inactive ordinary disc stays
\* inactive in every later step of the session.
C4_CapturedAtRest ==
  [][/\ IsTick =>
          \A i \in Indices :
            (Ordinary(discs[i]) /\ discs[i].active /\ AtPocketCentre(discs[i])
               /\ AtRest(discs[i]))
              => ~discs'[i].active
     /\ StaysInactive]_vars

\* a tick has pocketed the disc that lay on the pocket centre (W, H): it is
\* inactive where the wall step put it
C4_Pocketed ==
  /\ lastEvent = "tick"
  /\ \E i \in Indices :
       /\ Ordinary(discs[i]) /\ ~discs[i].active
       /\ discs[i].x = Width(game) - discs[i].radius
       /\ discs[i].y = Height(game) - discs[i].radius

\* C5 as stated: a cue ball / striker whose centre is on a pocket centre
\* is, after the next tick, on the launch point with velocity (0, 0), and
\* active.
C5_CueRelaunched ==
  [][IsTick =>
       \A i \in Indices :
         (IsCue(discs[i]) /\ discs[i].active /\ AtPocketCentre(discs[i]))
           => /\ discs'[i].active
              /\ AtLaunchPoint(discs'[i])
              /\ AtRest(discs'[i])]_vars

\* C6 as stated: a step in which handlePointerUp assigns a launch velocity
\* starts in a state where every active disc is at rest.
C6_ShotOnlyWhenSettled ==
  [][shot' # NoShot =>
       \A i \in Indices : discs[i].active => AtRest(discs[i])]_vars

\* C7 as stated: a release that assigns a non-zero launch velocity is
\* followed by a tick that moves the cue ball / striker by it; the step
\* of the release runs the Loop effect, and with it update, so after the
\* step the disc is no longer where it was.
C7_ShotMovesCue ==
  [][(shot' # NoShot /\ (shot'.vx # 0 \/ shot'.vy # 0)) =>
       \E c \in {CueIndex(game, Cur)} :
         discs'[c].x # discs[c].x \/ discs'[c].y # discs[c].y]_vars

\* C8 as stated: a step assigns a new disc array only when the component
\* mounts and when RESET is pressed.
C8_CreatedOnlyOnReset ==
  created > 0 => lastEvent \in {"mount", "reset"}

\* C9: exactly one disc of the collection is the cue ball / striker, and
\* it is active.
C9_OneActiveCue ==
  /\ Cardinality({ i \in Indices : IsCue(discs[i]) }) = 1
  /\ \A i \in Indices : IsCue(discs[i]) => discs[i].active

\* the step has pocketed the cue ball: it is on the launch point, active
C9_Scratched ==
  /\ foul
  /\ \E i \in Indices :
       IsCue(discs[i]) /\ discs[i].active /\ AtLaunchPoint(discs[i])
          /\ AtRest(discs[i])

\* C10: in a step that is not a RESET no disc goes from inactive to
\* active.
C10_ActiveMonotone ==
  [][lastEvent' # "reset" =>
       \A i \in Indices :
         ~discs[i].active => (i \in 1..Len(discs') /\ ~discs'[i].active)]_vars

\* a disc pocketed in this session, on the spot where it was pocketed and
\* not where the discs pocketed before lie, is inactive two ticks on
C10_StillPocketed ==
  /\ ticks >= 2
  /\ \E i \in Indices :
       /\ Ordinary(discs[i]) /\ ~discs[i].active
       /\ discs[i].x # discs[i].radius

\* C11 as stated: resolveCollision applied to two active discs with
\* coincident centres writes no NaN: the position and the velocity of
\* every disc are numbers in every state of a table placed with
\* coincident centres.
C11_NumbersStayDefined ==
  \A i \in Indices :
    /\ discs[i].x # NaN /\ discs[i].y # NaN
    /\ discs[i].vx # NaN /\ discs[i].vy # NaN

Zero == [vx |-> 0, vy |-> 0]
Settled == \A i \in Indices : discs[i].active => AtRest(discs[i])

\* C12: a release whose press point equals its release point assigns the
\* cue ball / striker the launch velocity (0, 0), and a table on which
\* every active disc was at rest is so after the release.
C12_DegenerateDragIsZero ==
  [][(shot' # NoShot /\ dragStart = dragCurrent)
       => /\ shot' = Zero
          /\ Settled => \A i \in 1..Len(discs') :
                          discs'[i].active => AtRest(discs'[i])]_vars

\* a release has assigned (0, 0) and the table is settled
C12_ZeroShot == lastEvent = "up" /\ shot = Zero /\ Settled

\* maxSpeed and scaleFactor of the drag mapper: (20, 0.15) in Pool and
\* (25, 0.2) in Carrom
MaxSpeed == IF game = "pool" THEN 20 * Scale ELSE 25 * Scale
Scaled(m) == IF game = "pool" THEN (m * 15) \div 100 ELSE (m * 2) \div 10
Speed(v) == MathHypot(v.vx, v.vy)

\* C13: the launch velocity a release assigns points along press -
\* release (no component across it beyond the tolerance, none against it),
\* its magnitude is min(maxSpeed, |press - release| * scaleFactor) within
\* the tolerance, and it does not exceed maxSpeed.
C13_LaunchVelocityMapped ==
  [][shot' # NoShot =>
       \A dx \in {dragStart.x - dragCurrent.x} :
       \A dy \in {dragStart.y - dragCurrent.y} :
       \A m \in {MathHypot(dx, dy)} :
       \A power \in {IF Scaled(m) < MaxSpeed THEN Scaled(m) ELSE MaxSpeed} :
         /\ Abs(Speed(shot') - power) <= Tolerance
         /\ Speed(shot') <= MaxSpeed
         /\ Abs(shot'.vx * dy - shot'.vy * dx) <= Tolerance * m
         /\ shot'.vx * dx + shot'.vy * dy >= 0
         /\ power > Tolerance => shot'.vx * dx + shot'.vy * dy > 0]_vars

\* Carrom's striker has been launched below the cap
C13_UncappedShot ==
  /\ lastEvent = "up" /\ game = "carrom"
  /\ shot # NoShot /\ shot # Zero
  /\ Speed(shot) < MaxSpeed - Tolerance

BelowThreshold(d) ==
  Abs(d.vx) < VELOCITY_THRESHOLD /\ Abs(d.vy) < VELOCITY_THRESHOLD

\* the disc i takes part in a pair the update of this step resolves
Resolved(i) == \E k \in 1..Len(hits') : i \in {hits'[k][1], hits'[k][2]}

\* C14 as stated, its first half: an active disc whose velocity has both
\* components below the threshold has velocity exactly (0, 0) after one
\* tick in which no pair it is part of is resolved.
C14_SnapsToRest ==
  [][IsTick => \A i \in Indices :
       (discs[i].active /\ BelowThreshold(discs[i]) /\ ~Resolved(i))
         => AtRest(discs'[i])]_vars

\* the Walls block of update changes the disc d after its move
TouchesWall(d) == AfterWalls(d) # Integrate(game, d)

\* C15: in a tick in which an active disc touches no wall, is not
\* pocketed and is in no resolved pair, the magnitude of each component of
\* its velocity does not grow.
C15_FrictionOnlySlows ==
  [][IsTick => \A i \in Indices :
       (/\ discs[i].active /\ discs'[i].active
        /\ ~(IsCue(discs[i]) /\ foul')
        /\ ~TouchesWall(discs[i])
        /\ ~Resolved(i))
         => /\ Abs(discs'[i].vx) <= Abs(discs[i].vx)
            /\ Abs(discs'[i].vy) <= Abs(discs[i].vy)]_vars

\* after a tick a disc away from the walls still rolls, no pair with it
\* having been resolved
C15_StillRolling ==
  /\ lastEvent = "tick"
  /\ \E i \in Indices :
       /\ discs[i].active /\ IsMoving(discs[i])
       /\ \A k \in 1..Len(hits) : i \notin {hits[k][1], hits[k][2]}
       /\ discs[i].x > 2 * discs[i].radius
       /\ discs[i].x < Width(game) - 2 * discs[i].radius
       /\ discs[i].y > 2 * discs[i].radius
       /\ discs[i].y < Height(game) - 2 * discs[i].radius

\* the discs as the first loop of a tick hands them to the pair loop
AfterPhysics == Physics(game, discs).discs

\* m1 * v1 + m2 * v2 of a pair, on each axis
Momentum(d1, d2) ==
  [x |-> Mass(game, d1) * d1.vx + Mass(game, d2) * d2.vx,
   y |-> Mass(game, d1) * d1.vy + Mass(game, d2) * d2.vy]

\* C16: for every pair of active discs the pair loop of the next tick can
\* be handed, if resolveCollision resolves it (overlapping, not
\* separating), the mass-weighted momentum of the pair is the same before
\* and after on both axes, within the tolerance.
C16_MomentumConserved ==
  \A ds \in {AfterPhysics} :
    \A i \in 1..Len(ds) : \A j \in (i + 1)..Len(ds) :
      (ds[i].active /\ ds[j].active)
        => \A c \in {ResolveCollision(game, ds[i], ds[j])} :
             c.hit =>
               /\ Abs(Momentum(c.d1, c.d2).x - Momentum(ds[i], ds[j]).x) <= Tolerance
               /\ Abs(Momentum(c.d1, c.d2).y - Momentum(ds[i], ds[j]).y) <= Tolerance

\* a tick has resolved the striker against a coin and left both moving on
\* both axes
C16_StrikerHitCoin ==
  /\ lastEvent = "tick" /\ game = "carrom"
  /\ \E k \in 1..Len(hits) :
       /\ hits[k][1] = 1
       /\ discs[1].vx # 0 /\ discs[1].vy # 0
       /\ discs[hits[k][2]].vx # 0 /\ discs[hits[k][2]].vy # 0

\* C17 as stated: on a table left to itself while the frames keep coming,
\* every active disc is eventually at rest, and stays so.
C17_EventuallySettled == <>[]Settled

\* the table with every inactive disc put a pixel beside the cue ball /
\* striker, at speed
Shadowed ==
  LET c == discs[CueIndex(game, Cur)]
  IN [Cur EXCEPT !.discs =
        [i \in Indices |->
           IF discs[i].active THEN discs[i]
           ELSE [discs[i] EXCEPT !.x = c.x + Scale, !.y = c.y,
                                 !.vx = 5 * Scale, !.vy = 0]]]

\* C18: a tick leaves the position and the velocity of every inactive disc
\* as they were, leaves the collection with the same discs in the same
\* places, and gives every disc active before it the position, velocity
\* and flag it would give it were the inactive discs lying elsewhere.
C18_InactiveDiscsInert ==
  [][IsTick =>
       /\ Len(discs') = Len(discs)
       /\ \A i \in Indices :
            /\ discs'[i].type = discs[i].type
            /\ discs'[i].radius = discs[i].radius
            /\ ~discs[i].active => discs'[i] = discs[i]
       /\ \A s \in {Frame(game, Shadowed)} :
            \A i \in Indices : discs[i].active => s.discs[i] = discs'[i]]_vars

\* after a tick an inactive disc lies within touching distance of an
\* active one
C18_InactiveUnderActive ==
  /\ lastEvent = "tick"
  /\ \E i \in Indices, j \in Indices :
       /\ ~discs[i].active /\ discs[j].active
       /\ Distance(discs[i], discs[j]) < discs[i].radius + discs[j].radius

\* what the gate reports: gameState.current.moving is false (Pool); the
\* last update computed moving = false, which is what canStrike holds
\* after a tick (Carrom)
GateSettled == IF game = "pool" THEN ~moving ELSE canStrike

\* C19 as stated: whenever the gate reports Settled at the end of a tick,
\* every active disc has velocity (0, 0).
C19_GateMeansAtRest ==
  (lastEvent = "tick" /\ GateSettled) => Settled

\* the point value of a disc: 100 for a ball of Pool; 50 for Carrom's
\* queen and 10 for every other coin; nothing for the cue ball / striker
PointValue(d) ==
  IF IsCue(d) THEN 0
  ELSE IF game = "pool" THEN 100
  ELSE IF d.type = "queen" THEN 50 ELSE 10

\* the point values of the inactive discs among the first n
RECURSIVE InactiveValue(_)
InactiveValue(n) ==
  IF n = 0 THEN 0
  ELSE InactiveValue(n - 1)
       + (IF discs[n].active THEN 0 ELSE PointValue(discs[n]))

\* C20: the score is the sum of the point values of the inactive discs.
C20_ScoreCountsPocketed == score = InactiveValue(Len(discs))

\* a tick of Carrom has pocketed a coin in play
C20_CoinScored ==
  /\ lastEvent = "tick" /\ ticks = 1 /\ game = "carrom"
  /\ \E i \in Indices :
       /\ Ordinary(discs[i]) /\ ~discs[i].active
       /\ discs[i].x = Width(game) - discs[i].radius
       /\ discs[i].y = Height(game) - discs[i].radius

\* C21 as stated: if every active disc is at rest at the end of a tick,
\* the gate reports Settled for that tick.
C21_AtRestMeansGate ==
  (lastEvent = "tick" /\ Settled) => GateSettled

\* the pair overlaps, its centres are distinct and its relative velocity
\* along the normal from d1 to d2 is positive
Separating(d1, d2) ==
  \E dist \in {Distance(d1, d2)} :
    /\ Gt(dist, 0) /\ Lt(dist, d1.radius + d2.radius)
    /\ Gt(NormalVelocity(d1, d2, Quot(Sub(d2.x, d1.x), dist, Unit),
                         Quot(Sub(d2.y, d1.y), dist, Unit)), 0)

\* C22: resolveCollision applied to an overlapping pair that is separating
\* (relative velocity along the normal positive) returns both discs as they
\* were: positions and velocities unchanged.
C22_SeparatingUntouched ==
  \A i, j \in Indices :
    (i < j /\ Separating(discs[i], discs[j]))
      => \A c \in {ResolveCollision(game, discs[i], discs[j])} :
           c.d1 = discs[i] /\ c.d2 = discs[j] /\ ~c.hit

\* a tick has left two active discs overlapping and separating without
\* resolving the pair
C22_LeftOverlapping ==
  /\ lastEvent = "tick"
  /\ \E i, j \in Indices :
       /\ i < j /\ discs[i].active /\ discs[j].active
       /\ Separating(discs[i], discs[j])
       /\ \A k \in 1..Len(hits) : hits[k] # <<i, j>>

\* the pair overlaps, its centres are distinct and its relative velocity
\* along the normal is zero or negative: resolveCollision resolves it
Approaching(d1, d2) ==
  \E dist \in {Distance(d1, d2)} :
    /\ Gt(dist, 0) /\ Lt(dist, d1.radius + d2.radius)
    /\ \E vn \in {NormalVelocity(d1, d2, Quot(Sub(d2.x, d1.x), dist, Unit),
                                 Quot(Sub(d2.y, d1.y), dist, Unit))} :
         vn # NaN /\ vn <= 0

\* the length of the displacement from disc a to disc b
Moved(a, b) == MathHypot(Sub(b.x, a.x), Sub(b.y, a.y))

\* C23: resolveCollision applied to one overlapping pair with distinct
\* centres that is not separating moves the two discs by opposite
\* displacements of half the overlap each, whatever their masses, and
\* leaves their centres the sum of the radii apart (up to the tolerance).
C23_HalfOverlapEach ==
  \A i, j \in Indices :
    (i < j /\ Approaching(discs[i], discs[j]))
      => \A c \in {ResolveCollision(game, discs[i], discs[j])} :
         \A overlap \in {discs[i].radius + discs[j].radius
                           - Distance(discs[i], discs[j])} :
           /\ c.hit
           /\ c.d1.x - discs[i].x = -(c.d2.x - discs[j].x)
           /\ c.d1.y - discs[i].y = -(c.d2.y - discs[j].y)
           /\ Abs(2 * Moved(discs[i], c.d1) - overlap) <= Tolerance
           /\ Abs(2 * Moved(discs[j], c.d2) - overlap) <= Tolerance
           /\ Abs(Distance(c.d1, c.d2) - (c.d1.radius + c.d2.radius))
                <= Tolerance

\* a Carrom tick has resolved the striker against a coin, a pair of unequal
\* masses, and no other pair with either, and left them tangent
C23_StrikerCoinTangent ==
  /\ lastEvent = "tick" /\ game = "carrom"
  /\ \E k \in 1..Len(hits) :
       /\ ResolvedAlone(hits, k)
       /\ Mass(game, discs[hits[k][1]]) # Mass(game, discs[hits[k][2]])
       /\ Abs(Distance(discs[hits[k][1]], discs[hits[k][2]])
                - (discs[hits[k][1]].radius + discs[hits[k][2]].radius))
            <= Tolerance

\* C24 as stated: in Carrom, after a tick that leaves input enabled
\* (canStrike, no drag in progress), the striker is at rest on the
\* baseline, y = BASELINE_Y, with STRIKER_RADIUS <= x <= BOARD_SIZE -
\* STRIKER_RADIUS.
C24_StrikerOnBaseline ==
  (game = "carrom" /\ lastEvent = "tick" /\ canStrike /\ ~isAiming)
    => /\ discs[1].y = BASELINE_Y * Scale
       /\ AtRest(discs[1])
       /\ STRIKER_RADIUS * Scale <= discs[1].x
       /\ discs[1].x <= (BOARD_SIZE - STRIKER_RADIUS) * Scale

\* C29 as stated: whenever the wall step of a tick clamps a disc on an
\* axis, the disc's velocity on that axis is afterwards zero or points to
\* the interior of the table.
C29_ClampTurnsInward ==
  \A i \in Indices : discs[i].active =>
    \A m \in {Integrate(game, discs[i])} :
    \A w \in {Walls(game, m)} :
      /\ Lt(Sub(m.x, m.radius), 0) => w.vx >= 0
      /\ Gt(Add(m.x, m.radius), Width(game)) => w.vx <= 0
      /\ Lt(Sub(m.y, m.radius), 0) => w.vy >= 0
      /\ Gt(Add(m.y, m.radius), Height(game)) => w.vy <= 0

\* the boards one move(dx, dy) away from b, the move counter left out
OneMove(b) ==
  { [Move(b, d[1], d[2]) EXCEPT !.moves = 0] : d \in Directions }

\* the boards any number of moves away from the boards seen
RECURSIVE Playable(_, _)
Playable(frontier, seen) ==
  IF frontier = {} THEN seen
  ELSE LET found == (UNION { OneMove(b) : b \in frontier }) \ seen
       IN Playable(found, seen \cup found)

\* some sequence of moves from b sets isWin
Winnable(b) ==
  \E s \in Playable({[b EXCEPT !.moves = 0]}, {[b EXCEPT !.moves = 0]}) : s.isWin

\* C25 as stated, for the level the spec names: the board loadLevel makes
\* of level index 0 can be brought to isWin by some sequence of moves.
C25_FirstLevelWinnable ==
  (board.levelIndex = 0 /\ lastEvent \in {"mount", "load"}) => Winnable(board)

\* the cell next to the player in direction d is a wall, or holds a box
\* that has a wall or a box behind it
Blocked(b, d) ==
  LET newX == b.player.x + d[1]
      newY == b.player.y + d[2]
  IN \/ IsWall(b, newX, newY)
     \/ /\ GetBoxIndex(b, newX, newY) # -1
        /\ \/ IsWall(b, newX + d[1], newY + d[2])
           \/ GetBoxIndex(b, newX + d[1], newY + d[2]) # -1

\* C30: after any sequence of moves no box is on a WALL or outside the
\* grid, no two boxes share a cell, the player is on no WALL and on no box,
\* the number of boxes is that of the loaded level, a blocked move leaves
\* the board (player, boxes, moves) as it was, and with isWin set no move
\* changes the board.
C30_BoardStaysLegal ==
  /\ \A i \in 1..Len(board.boxes) :
       ~IsWall(board, board.boxes[i].x, board.boxes[i].y)
  /\ \A i, j \in 1..Len(board.boxes) :
       i # j => board.boxes[i] # board.boxes[j]
  /\ ~IsWall(board, board.player.x, board.player.y)
  /\ GetBoxIndex(board, board.player.x, board.player.y) = -1
  /\ Len(board.boxes) = Len(LoadLevel(board.levelIndex).boxes)
  /\ \A d \in Directions :
       Blocked(board, d) => Move(board, d[1], d[2]) = board
  /\ \A w \in {[board EXCEPT !.isWin = TRUE]} :
       \A d \in Directions : Move(w, d[1], d[2]) = w

\* a move has left the player behind a box it has pushed against a wall or
\* against another box
C30_PushedHome ==
  /\ lastEvent = "move"
  /\ board.boxes # LoadLevel(board.levelIndex).boxes
  /\ \E d \in Directions :
       /\ GetBoxIndex(board, board.player.x + d[1], board.player.y + d[2]) # -1
       /\ Blocked(board, d)

\* the pairs of tiles (the blank left out) that stand in the wrong order
Inversions(tiles) ==
  Cardinality({ p \in (1..Len(tiles)) \X (1..Len(tiles)) :
                  /\ p[1] < p[2]
                  /\ tiles[p[1]] # 0 /\ tiles[p[2]] # 0
                  /\ tiles[p[1]] > tiles[p[2]] })

\* tiles holds each of 0 .. gridSize^2 - 1 once
IsPermutation(gridSize, tiles) ==
  /\ Len(tiles) = gridSize * gridSize
  /\ \A v \in 0..(gridSize * gridSize - 1) :
       Cardinality({ k \in 1..Len(tiles) : tiles[k] = v }) = 1

\* the board can be reached from the solved board by moves of the blank:
\* the parity of the inversions (odd width), or of the inversions plus the
\* blank's row counted from the solved board's (even width), is even
ReachableFromSolved(gridSize, tiles) ==
  IF gridSize % 2 = 1 THEN Inversions(tiles) % 2 = 0
  ELSE (Inversions(tiles)
          + (gridSize - 1 - (IndexOfBlank(tiles) \div gridSize))) % 2 = 0

\* C26: the board initGame deals and every board moveTile makes of it is a
\* permutation of 0 .. gridSize^2 - 1 that can be reached from the solved
\* board by moves of the blank; and moveTile changes the board only when
\* the clicked tile is next to the blank, above, below, left or right, and
\* then swaps those two cells and no other.
C26_BoardStaysSolvable ==
  /\ IsPermutation(board.gridSize, board.tiles)
  /\ ReachableFromSolved(board.gridSize, board.tiles)
  /\ \A index \in 0..(Len(board.tiles) - 1) :
       \A m \in {MoveTile(board, index)} :
         m.tiles # board.tiles
           => /\ ManhattanDistance(board.gridSize, index,
                                   IndexOfBlank(board.tiles)) = 1
              /\ m.tiles = Swap(board.tiles, index, IndexOfBlank(board.tiles))

\* a click has moved a tile into the blank, with tiles in other rows and
\* columns to click on
C26_TileMoved ==
  /\ lastEvent = "click"
  /\ board.moves > 0
  /\ \E index \in 0..(Len(board.tiles) - 1) :
       /\ board.tiles[index + 1] # 0
       /\ ManhattanDistance(board.gridSize, index, IndexOfBlank(board.tiles)) > 1

\* the locked grid, the current piece, the score and the level of two
\* boards are the same
SameGame(b, c) ==
  /\ b.grid = c.grid /\ b.currentPiece = c.currentPiece
  /\ b.score = c.score /\ b.level = c.level
  /\ b.scoreState = c.scoreState /\ b.levelState = c.levelState

\* C27 as stated: while Tetris is paused no animation frame and no input
\* changes the locked grid, the current piece, the score or the level, and
\* the space key that ends the pause leaves them as they were.
C27_PausedIsFrozen ==
  [][(board.isPaused /\ lastEvent' # "reset") => SameGame(board, board')]_vars

\* C28 as stated: from initGame until the next click on a card, the cards
\* are the deck initGame dealt, each face-down and unmatched, also when a
\* timeout set before initGame runs in between.
C28_DeckStaysDealt ==
  board.untouched
    => /\ board.cards = board.dealt
       /\ \A k \in 1..Len(board.cards) :
            ~board.cards[k].isFlipped /\ ~board.cards[k].isMatched

====
